---- MODULE Spec2Model ----
(***************************************************************************)
(* The knowledge store and its crawl lifecycle.                            *)
(*                                                                         *)
(* The repository holds two routers over the same `knowledge` table:       *)
(*   - backend/routes/knowledge.js, the router backend/app.js mounts at    *)
(*     /knowledge (crawlUrl, /add, /crawl, /crawl-single, /crawl-all,      *)
(*     /recrawl-all, /remove, /clear, /add-wallet-info);                   *)
(*   - unnamed/part_007, a second knowledge router (/add, /crawl,          *)
(*     /bulk-crawl, ...), whose definitions carry the prefix P7 here.      *)
(* Every SQL statement is one atomic step on the table.  A handler that    *)
(* awaits a crawl is split at the await: the part before it is one action, *)
(* the part after it (the write and the response) another.                 *)
(***************************************************************************)

EXTENDS Integers, Sequences, FiniteSets, TLC

(***************************************************************************)
(* State.                                                                  *)
(***************************************************************************)
VARIABLES
    knowledge,    \* the knowledge table
    crawls,       \* the /crawl and /crawl-single requests awaiting their crawl
    crawlAll,     \* the /crawl-all request in its loop, or Idle
    recrawlAll,   \* the /recrawl-all request in its loop, or Idle
    bulkCrawl,    \* the /bulk-crawl request in its loop, or Idle
    last,         \* the handler step taken last and the response it sent
    nreq,         \* requests accepted so far
    browsers      \* browser instances launched and not closed

vars == <<knowledge, crawls, crawlAll, recrawlAll, bulkCrawl, last, nreq, browsers>>

(***************************************************************************)
(* Bounds of the model.                                                    *)
(***************************************************************************)
\* HTTP requests accepted in one behaviour
MaxRequests == 2
\* single-url crawl requests (/crawl, /crawl-single) in flight at once
MaxCrawls == 1
\* length of the urls array of one /bulk-crawl request
MaxBulk == 1

(***************************************************************************)
(* Values.                                                                 *)
(***************************************************************************)
\* SQL NULL
NULL == [null |-> TRUE]

\* `!url` of the handlers: the request carries no url
NoUrl == ""

InternalUrl == "http://localhost:3000/knowledge/clear"

URLs == {"https://bitcoin.org/wallets", "https://example.com/a", InternalUrl}

Min(a, b) == IF a < b THEN a ELSE b

\* s.slice(0, n) of a text: its length is cut to n.  A text is kept as the
\* terms it contains and its length in characters; the terms of the texts
\* used here all lie within the first characters kept.
Slice(text, n) == [text EXCEPT !.len = Min(text.len, n)]

(***************************************************************************)
(* Texts.  A text is a record [words, len]: its lower-case words in order  *)
(* (punctuation dropped) and its length in characters.                     *)
(***************************************************************************)
RECURSIVE SeqToSet(_)
SeqToSet(s) == IF s = <<>> THEN {} ELSE {Head(s)} \cup SeqToSet(Tail(s))

RECURSIVE Dedupe(_)
\* [...new Set(s)]: the first occurrence of each element, in order
Dedupe(s) ==
    IF s = <<>> THEN <<>>
    ELSE LET front == Dedupe(SubSeq(s, 1, Len(s) - 1))
             final == s[Len(s)]
         IN IF final \in SeqToSet(front) THEN front ELSE Append(front, final)

\* s.slice(0, n) of an array
Take(s, n) == SubSeq(s, 1, Min(Len(s), n))

IsPrefix(p, s) == Len(p) <= Len(s) /\ SubSeq(s, 1, Len(p)) = p

RECURSIVE ReplacePhrase(_, _, _)
\* String.replace(/\bphrase\b/g, repl) on the word sequence: every occurrence
\* of phrase, left to right, without rescanning the replacement
ReplacePhrase(s, phrase, repl) ==
    IF s = <<>> THEN <<>>
    ELSE IF IsPrefix(phrase, s)
         THEN repl \o ReplacePhrase(SubSeq(s, Len(phrase) + 1, Len(s)), phrase, repl)
         ELSE <<Head(s)>> \o ReplacePhrase(Tail(s), phrase, repl)

\* needle is a substring of the word hay, for the words of this model
\* (String.includes on one word)
SubstringPairs ==
    { <<"wallet", "wallets">>, <<"payment", "payments">>,
      <<"cash", "ecash">>, <<"cash", "cashu">>,
      <<"ssl", "net::err_ssl_protocol_error">>,
      <<"blocked", "net::err_blocked_by_client">>,
      <<"timeout", "https://example.com/timeout">>,
      <<"dns", "https://dns.example.com/">> }

Sub(needle, hay) == needle = hay \/ <<needle, hay>> \in SubstringPairs

\* normalizedContent.includes(term), term a word or a phrase of several words:
\* a one-word term may lie inside a word, a phrase matches word by word
Includes(words, term) ==
    IF Len(term) = 1
    THEN \E i \in 1..Len(words) : Sub(term[1], words[i])
    ELSE \E i \in 1..Len(words) : IsPrefix(term, SubSeq(words, i, Len(words)))

\* the terms of the tag vocabulary that occur in the lower-cased url
UrlTerms(url) ==
    IF url = "https://bitcoin.org/wallets" THEN {"bitcoin", "wallet"} ELSE {}

(***************************************************************************)
(* extractTags of backend/routes/knowledge.js.                             *)
(***************************************************************************)
MaxTags == 15
TopWords == 10

staticTags ==
    << "bitcoin", "lightning", "nostr", "hardware", "software", "cashu", "wallet",
       "node", "api", "extension", "protocol", "blockchain", "cryptocurrency",
       "mining", "wallet", "exchange", "defi", "smart contract", "layer2",
       "scaling", "privacy", "security", "development", "documentation" >>

\* a tag or search word as the words to look for
TermOf(tag) == IF tag = "smart contract" THEN <<"smart", "contract">> ELSE <<tag>>

stopWords ==
    { "the", "and", "for", "are", "but", "not", "you", "all", "can", "had", "her",
      "was", "one", "our", "out", "day", "get", "has", "him", "his", "how", "man",
      "new", "now", "old", "see", "two", "way", "who", "boy", "did", "its", "let",
      "put", "say", "she", "too", "use", "this", "that", "with", "from", "have",
      "will", "would", "could", "should", "when", "where", "what", "why", "which",
      "there", "their", "they", "them", "then", "than", "been", "being", "into",
      "over", "under", "after", "before", "during", "within", "without", "against",
      "among", "between", "through", "throughout", "toward", "towards", "upon",
      "concerning", "regarding", "about", "like", "such", "very", "much", "many",
      "few", "some", "any", "each", "every", "either", "neither", "both", "none",
      "most", "least", "more", "less", "fewer", "several", "various", "different",
      "same", "similar", "other", "another", "next", "last", "first", "second",
      "third", "fourth", "fifth", "sixth", "seventh", "eighth", "ninth", "tenth",
      "electronic", "cash" }

uiWords ==
    { "menu", "navigation", "home", "about", "contact", "login", "register", "sign",
      "search", "submit", "button", "link", "click", "here", "read", "more", "less",
      "show", "hide", "expand", "collapse", "toggle", "open", "close", "next",
      "previous", "back", "forward", "up", "down", "left", "right", "top", "bottom",
      "header", "footer", "sidebar", "main", "content", "page", "site", "web",
      "website", "skip", "loading", "error", "success", "warning", "info", "help",
      "support", "faq", "public", "notifications", "fork", "star", "code", "issues",
      "pull", "requests", "actions", "projects", "security", "sponsor" }

\* Object.entries(searchWordMappings): a key written twice keeps its first
\* place and its last value ("node" ends as lightning)
searchWordMappings ==
    << <<"btc", "bitcoin">>, <<"satoshi", "bitcoin">>, <<"blockchain", "bitcoin">>,
       <<"mining", "bitcoin">>, <<"node", "lightning">>, <<"wallet", "bitcoin">>,
       <<"electrum", "bitcoin">>, <<"hardware", "bitcoin">>, <<"multisig", "bitcoin">>,
       <<"private", "bitcoin">>, <<"keys", "bitcoin">>, <<"address", "bitcoin">>,
       <<"transaction", "bitcoin">>, <<"fee", "bitcoin">>, <<"mempool", "bitcoin">>,
       <<"block", "bitcoin">>,
       <<"lightning", "lightning">>, <<"channel", "lightning">>,
       <<"payment", "lightning">>, <<"invoice", "lightning">>, <<"lnurl", "lightning">>,
       <<"lnbits", "lightning">>, <<"btcpay", "lightning">>, <<"routing", "lightning">>,
       <<"peer", "lightning">>, <<"sat", "lightning">>, <<"sats", "lightning">>,
       <<"millisat", "lightning">>, <<"msat", "lightning">>,
       <<"nostr", "nostr">>, <<"relay", "nostr">>, <<"npub", "nostr">>,
       <<"nsec", "nostr">>, <<"note", "nostr">>, <<"event", "nostr">>,
       <<"client", "nostr">>, <<"pubkey", "nostr">>, <<"signature", "nostr">>,
       <<"nip", "nostr">>, <<"zap", "nostr">>, <<"reaction", "nostr">>,
       <<"dm", "nostr">>, <<"direct", "nostr">>, <<"message", "nostr">>,
       <<"cashu", "cashu">>, <<"ecash", "cashu">>, <<"mint", "cashu">>,
       <<"proof", "cashu">>, <<"blinded", "cashu">>, <<"token", "cashu">>,
       <<"melt", "cashu">>, <<"split", "cashu">>, <<"join", "cashu">>,
       <<"electronic", "cashu">>, <<"cash", "cashu">> >>

\* the two String.replace calls for NWC: nwc -> nostr wallet connect (nwc),
\* then nostr wallet connect -> nostr wallet connect (nwc)
NormalizeNwc(words) ==
    IF Includes(words, <<"nwc">>) \/ Includes(words, <<"nostr", "wallet", "connect">>)
    THEN ReplacePhrase(
             ReplacePhrase(words, <<"nwc">>, <<"nostr", "wallet", "connect", "nwc">>),
             <<"nostr", "wallet", "connect">>, <<"nostr", "wallet", "connect", "nwc">>)
    ELSE words

\* the three String.replace calls for eCash (hasCashuIndicators holds whenever
\* the outer test does: its list repeats the three words tested)
NormalizeEcash(words) ==
    IF Includes(words, <<"cashu">>) \/ Includes(words, <<"ecash">>)
       \/ Includes(words, <<"electronic", "cash">>)
    THEN LET ec == <<"electronic", "cash", "ecash">>
         IN ReplacePhrase(
                ReplacePhrase(ReplacePhrase(words, <<"ecash">>, ec), <<"cashu">>, ec),
                <<"electronic", "cash">>, ec)
    ELSE words

RECURSIVE CountOf(_, _)
CountOf(w, s) ==
    IF s = <<>> THEN 0
    ELSE (IF Head(s) = w THEN 1 ELSE 0) + CountOf(w, Tail(s))

RECURSIVE InsertByCount(_, _, _)
\* w goes after every entry whose count is at least its own (stable, descending)
InsertByCount(w, sorted, all) ==
    IF sorted = <<>> THEN <<w>>
    ELSE IF CountOf(Head(sorted), all) >= CountOf(w, all)
         THEN <<Head(sorted)>> \o InsertByCount(w, Tail(sorted), all)
         ELSE <<w>> \o sorted

RECURSIVE SortByCount(_, _)
\* Object.entries(wordCount).sort(([,a],[,b]) => b - a): keys in first-seen
\* order, sorted by count, ties keeping their order
SortByCount(keys, all) ==
    IF keys = <<>> THEN <<>>
    ELSE InsertByCount(keys[Len(keys)], SortByCount(SubSeq(keys, 1, Len(keys) - 1), all), all)

RECURSIVE SelectWords(_)
\* the word filter: length 3..20, not a stop word
SelectWords(s) ==
    IF s = <<>> THEN <<>>
    ELSE IF Len(Head(s)) >= 3 /\ Len(Head(s)) <= 20 /\ Head(s) \notin stopWords
         THEN <<Head(s)>> \o SelectWords(Tail(s))
         ELSE SelectWords(Tail(s))

RECURSIVE DropWords(_, _)
DropWords(s, drop) ==
    IF s = <<>> THEN <<>>
    ELSE IF Head(s) \in drop THEN DropWords(Tail(s), drop)
    ELSE <<Head(s)>> \o DropWords(Tail(s), drop)

RECURSIVE FoundStatic(_, _, _)
\* staticTags.filter(tag => normalizedContent.includes(tag) || url.includes(tag))
FoundStatic(tags, words, url) ==
    IF tags = <<>> THEN <<>>
    ELSE IF Includes(words, TermOf(Head(tags))) \/ Head(tags) \in UrlTerms(url)
         THEN <<Head(tags)>> \o FoundStatic(Tail(tags), words, url)
         ELSE FoundStatic(Tail(tags), words, url)

RECURSIVE DetectedEcosystems(_, _, _)
\* the ecosystems of the search words found, in the order they are first added
DetectedEcosystems(mappings, words, url) ==
    IF mappings = <<>> THEN <<>>
    ELSE LET m == Head(mappings)
             rest == DetectedEcosystems(Tail(mappings), words, url)
         IN IF Includes(words, <<m[1]>>) \/ m[1] \in UrlTerms(url)
            THEN Dedupe(<<m[2]>> \o rest)
            ELSE rest

RECURSIVE PushMissing(_, _)
\* detectedEcosystems.forEach(e => { if (!allTags.includes(e)) allTags.push(e) })
PushMissing(tags, more) ==
    IF more = <<>> THEN tags
    ELSE PushMissing(IF Head(more) \in SeqToSet(tags) THEN tags ELSE Append(tags, Head(more)),
                     Tail(more))

Sentinels ==
    { <<"content", "not", "accessible", "via", "crawling">>,
      <<"twitter", "x", "profile", "content", "not", "accessible", "via", "crawling">> }

\* tags that follow what the store holds and not the page
extractTagsOfStore(content, url) ==
    IF knowledge = <<>> THEN <<>> ELSE <<"bitcoin">>

extractTags(content, url) ==
    LET normalizedContent == NormalizeEcash(NormalizeNwc(content.words))
        foundStatic == FoundStatic(staticTags, normalizedContent, url)
        filteredWords == DropWords(SelectWords(normalizedContent), uiWords)
        sortedWords == Take(SortByCount(Dedupe(filteredWords), filteredWords), TopWords)
        allTags == Dedupe(foundStatic \o sortedWords)
        withEco == PushMissing(allTags,
                       DetectedEcosystems(searchWordMappings, normalizedContent, url))
        withNwc == IF Includes(normalizedContent, <<"nostr", "wallet", "connect">>)
                   THEN withEco \o <<"nostr-wallet-connect", "nwc">>
                   ELSE withEco
        withEcash == IF Includes(normalizedContent, <<"electronic", "cash">>)
                     THEN withNwc \o <<"electronic-cash", "ecash", "cashu">>
                     ELSE withNwc
    IN IF content.words \in Sentinels
       THEN <<"social", "profile">>
       ELSE Take(withEcash, MaxTags)

(***************************************************************************)
(* The knowledge table.  A row is [url, status, tags, content, errorMsg,   *)
(* metadata]; a column is NULL or a record holding its value.  The table   *)
(* is the sequence of its rows by updatedAt, newest first: every INSERT    *)
(* and every UPDATE of the routers sets updatedAt to CURRENT_TIMESTAMP,    *)
(* so the row written moves to the front and the timestamps themselves     *)
(* are not kept.                                                           *)
(***************************************************************************)
Row(url, status, tags, content, errorMsg, metadata) ==
    [url |-> url, status |-> status, tags |-> tags, content |-> content,
     errorMsg |-> errorMsg, metadata |-> metadata]

\* JSON.stringify(tags) as stored in the tags column
Json(tags) == [json |-> tags]

HasRow(tbl, url) == \E i \in 1..Len(tbl) : tbl[i].url = url

RowOf(tbl, url) == tbl[CHOOSE i \in 1..Len(tbl) : tbl[i].url = url]

RECURSIVE DeleteWhereUrl(_, _)
\* DELETE FROM knowledge WHERE url = ?
DeleteWhereUrl(tbl, url) ==
    IF tbl = <<>> THEN <<>>
    ELSE IF Head(tbl).url = url THEN DeleteWhereUrl(Tail(tbl), url)
    ELSE <<Head(tbl)>> \o DeleteWhereUrl(Tail(tbl), url)

\* DELETE FROM knowledge
DeleteAll(tbl) == <<>>

\* an INSERT that does not look for the url
InsertAlways(tbl, url, status) ==
    <<Row(url, status, NULL, NULL, NULL, NULL)>> \o tbl

\* INSERT OR IGNORE INTO knowledge (url, status): url is UNIQUE, so the
\* statement does nothing when a row with the url exists
InsertOrIgnore(tbl, url, status) ==
    IF HasRow(tbl, url) THEN tbl
    ELSE <<Row(url, status, NULL, NULL, NULL, NULL)>> \o tbl

\* INSERT OR REPLACE INTO knowledge (...): the row with the url, if any, is
\* deleted and the new row inserted; columns not listed become NULL
InsertOrReplace(tbl, row) == <<row>> \o DeleteWhereUrl(tbl, row.url)

\* UPDATE knowledge SET ... WHERE url = ?: set holds the columns assigned.
\* The rows updated come to the front (updatedAt = CURRENT_TIMESTAMP); no row
\* matching, nothing changes
UpdateWhereUrl(tbl, url, set) ==
    LET hit == SelectSeq(tbl, LAMBDA r : r.url = url)
        after(r) == [c \in DOMAIN r |-> IF c \in DOMAIN set THEN set[c] ELSE r[c]]
    IN [i \in 1..Len(hit) |-> after(hit[i])] \o DeleteWhereUrl(tbl, url)

\* an UPDATE to 'crawled' that leaves the errorMsg column alone
SetCrawledKeepsError(tbl, url, tags, content) ==
    UpdateWhereUrl(tbl, url, [status |-> "crawled", tags |-> Json(tags),
                              content |-> content])

\* UPDATE knowledge SET status='crawled', tags=?, content=?, errorMsg=NULL,
\* updatedAt=CURRENT_TIMESTAMP WHERE url=?
SetCrawled(tbl, url, tags, content) ==
    UpdateWhereUrl(tbl, url, [status |-> "crawled", tags |-> Json(tags),
                              content |-> content, errorMsg |-> NULL])

\* UPDATE knowledge SET status='failed', errorMsg=?, updatedAt=CURRENT_TIMESTAMP
\* WHERE url=?
SetFailed(tbl, url, message) ==
    UpdateWhereUrl(tbl, url, [status |-> "failed", errorMsg |-> [message |-> message]])

(***************************************************************************)
(* crawlUrl and the error classifier of backend/routes/knowledge.js.       *)
(***************************************************************************)
ContentCap == 300

\* the texts processContent hands back for the pages of the model: a short
\* page, and a long one whose summary was cut at 300 characters and then
\* grown by the synonym table
ShortText == [words |-> <<"lightning", "wallet", "guide", "for", "payments">>, len |-> 36]

LongText ==
    [words |-> <<"nostr", "wallet", "connect", "nwc", "nwc", "for", "bitcoin", "wallets">>,
     len |-> 310]

PageContents == {ShortText, LongText}

\* An error message is kept as its pieces in order, the blanks between them
\* dropped: 'net::ERR_NAME_NOT_RESOLVED at https://bitcoin.org/wallets' is
\* the message page.goto throws when the host name does not resolve.
DnsMessage == <<"net::ERR_NAME_NOT_RESOLVED", "at", "https://bitcoin.org/wallets">>

BlockedMessage == <<"net::ERR_BLOCKED_BY_CLIENT", "at", "https://bitcoin.org/wallets">>

\* e.message of the navigation failures of the model
ErrorMessages == {DnsMessage, BlockedMessage}

\* String.toLowerCase on one piece of a message
LowerCase(piece) ==
    CASE piece = "net::ERR_CONNECTION_REFUSED" -> "net::err_connection_refused"
      [] piece = "net::ERR_NAME_NOT_RESOLVED" -> "net::err_name_not_resolved"
      [] piece = "net::ERR_CONNECTION_TIMED_OUT" -> "net::err_connection_timed_out"
      [] piece = "net::ERR_SSL_PROTOCOL_ERROR" -> "net::err_ssl_protocol_error"
      [] piece = "net::ERR_BLOCKED_BY_CLIENT" -> "net::err_blocked_by_client"
      [] piece = "net::ERR_INVALID_URL" -> "net::err_invalid_url"
      [] piece = "Navigation" -> "navigation"
      [] piece = "Timeout" -> "timeout"
      [] piece = "SSL" -> "ssl"
      [] OTHER -> piece

\* errorMessage.toLowerCase()
toLowerCase(errorMessage) == [i \in 1..Len(errorMessage) |-> LowerCase(errorMessage[i])]

classifyError(errorMessage) ==
    LET error == toLowerCase(errorMessage)
    IN IF Includes(error, <<"timeout">>) \/ Includes(error, <<"navigation", "timeout">>)
       THEN "TIMEOUT"
       ELSE IF Includes(error, <<"net::err_connection_refused">>)
               \/ Includes(error, <<"connection", "refused">>)
       THEN "CONNECTION_REFUSED"
       ELSE IF Includes(error, <<"net::err_name_not_resolved">>) \/ Includes(error, <<"dns">>)
       THEN "DNS_ERROR"
       ELSE IF Includes(error, <<"net::err_connection_timed_out">>) THEN "CONNECTION_TIMEOUT"
       ELSE IF Includes(error, <<"net::err_ssl_protocol_error">>) \/ Includes(error, <<"ssl">>)
       THEN "SSL_ERROR"
       ELSE IF Includes(error, <<"net::err_blocked_by_client">>)
               \/ Includes(error, <<"blocked">>)
       THEN "BLOCKED"
       ELSE IF Includes(error, <<"net::err_invalid_url">>) THEN "INVALID_URL"
       ELSE "UNKNOWN"

\* every error type counted as transient
AlwaysRetryable(errorType) == TRUE

isRetryableError(errorType) == errorType \in {"TIMEOUT", "CONNECTION_TIMEOUT", "DNS_ERROR"}

\* the catch block of crawlUrl: the value returned for an exception whose
\* message is e.message
crawlUrlCatch(message) ==
    [success |-> FALSE, error |-> message, errorType |-> classifyError(message),
     retryable |-> isRetryableError(classifyError(message))]

\* what crawlUrl(url) can return: it catches every failure of launch,
\* navigation and extraction, so it always returns one of these
crawlUrl(url) ==
    { [success |-> TRUE, content |-> c] : c \in PageContents }
    \cup
    { crawlUrlCatch(m) : m \in ErrorMessages }

\* 'Protocol error (Browser.close): Target closed.' is the message
\* browser.close() throws when the browser process is already gone.
CloseMessage == <<"Protocol", "error", "(Browser.close):", "Target", "closed.">>

\* the exceptions crawlUrl(url) can throw: its catch block awaits
\* browser.close() before it builds the failure it returns, so an exception
\* of that call leaves crawlUrl and reaches the caller's catch
crawlUrlThrows(url) == { [message |-> CloseMessage] }

Idle == [ep |-> "idle"]

\* browser = await puppeteer.launch(...): one more browser instance is open
Launch(n) == n + 1

\* a crawl that ends without closing the browser it launched
LeaveOpen(n) == n

\* await browser.close(): one browser instance fewer is open
Close(n) == n - 1

Slots == 1..MaxCrawls

Accept == nreq < MaxRequests /\ nreq' = nreq + 1

\* a step that sends no response
NoResp == [sent |-> FALSE]

Step(op, url, resp) == [op |-> op, url |-> url, resp |-> resp]

\* res.status(code).json(body)
Reply(code, body) == [sent |-> TRUE, code |-> code, body |-> body]

MissingUrl == Reply(400, [error |-> "Missing url"])

\* `content` and `tags` left out of a request body
Absent == [absent |-> TRUE]

\* the request of /add-wallet-info of the model: walletName "Blixt",
\* lnurlFeatures ["Pay request"], no description; its content is the template
\* filled in (156 characters)
WalletContent ==
    [words |-> <<"blixt", "bitcoin", "wallet", "lnurl", "features", "supported",
                 "pay", "request", "this", "wallet", "supports", "various", "lnurl",
                 "protocols", "for", "enhanced", "lightning", "network",
                 "functionality">>,
     len |-> 156]

\* `https://github.com/search?q=${encodeURIComponent(walletName)}`
WalletSearchUrl == "https://github.com/search?q=Blixt"

\* [walletName.toLowerCase(), 'wallet', 'lightning', 'lnurl']
WalletTags == <<"blixt", "wallet", "lightning", "lnurl">>

(***************************************************************************)
(* The table the process opens with: knowledge.db outlives the process,    *)
(* so the rows are those earlier requests left.  Each table below is one   *)
(* the handlers of backend/routes/knowledge.js produce from the empty one. *)
(***************************************************************************)
WalletsUrl == "https://bitcoin.org/wallets"

GuideUrl == "https://example.com/a"

StoredTables ==
    { <<>>,
      \* /add GuideUrl and a crawl of it, then /add WalletsUrl
      << Row(WalletsUrl, "pending", NULL, NULL, NULL, NULL),
         Row(GuideUrl, "crawled", Json(extractTags(ShortText, GuideUrl)), ShortText,
             NULL, NULL) >>,
      \* /add-wallet-info for GuideUrl, then a crawl of WalletsUrl and a second
      \* one that failed
      << Row(WalletsUrl, "failed", Json(extractTags(ShortText, WalletsUrl)), ShortText,
             [message |-> DnsMessage], NULL),
         Row(GuideUrl, "protected", Json(WalletTags), WalletContent, NULL, NULL) >> }

Init ==
    /\ knowledge \in StoredTables
    /\ crawls = [s \in Slots |-> Idle]
    /\ crawlAll = Idle
    /\ recrawlAll = Idle
    /\ bulkCrawl = Idle
    /\ last = Step("start", NoUrl, NoResp)
    /\ nreq = 0
    /\ browsers = 0

(***************************************************************************)
(* POST /add {url, content?, tags?}                                        *)
(***************************************************************************)
\* the content and tags a caller sends with /add
\* the `content` of the /add requests of the model: a short text, and one of
\* 301 characters
AddContents ==
    { [words |-> <<"cashu", "ecash", "mint">>, len |-> 16],
      [words |-> <<"bitcoin", "lightning", "wallet">>, len |-> 301] }

\* the `tags` of the requests of the model: two tags, and sixteen
AddTags ==
    { <<"wallet", "lnurl">>,
      <<"bitcoin", "lightning", "wallet", "lnurl", "nostr", "cashu", "ecash", "mint",
        "nwc", "zap", "relay", "node", "channel", "invoice", "payment", "onchain">> }

PostAdd(url, content, tags) ==
    /\ Accept
    /\ IF url = NoUrl
       THEN /\ last' = Step("PostAdd", url, MissingUrl)
            /\ UNCHANGED knowledge
       ELSE IF content # Absent
       THEN LET extractedTags == IF tags # Absent THEN tags.v ELSE extractTags(content, url)
            IN /\ knowledge' = InsertOrReplace(knowledge,
                                   Row(url, "crawled", Json(extractedTags), content, NULL, NULL))
               /\ last' = Step("PostAdd", url, Reply(200, [success |-> TRUE]))
       ELSE /\ knowledge' = InsertOrIgnore(knowledge, url, "pending")
            /\ last' = Step("PostAdd", url, Reply(200, [success |-> TRUE]))
    /\ UNCHANGED <<crawls, crawlAll, recrawlAll, bulkCrawl, browsers>>

(***************************************************************************)
(* GET /all                                                                *)
(***************************************************************************)
\* a listing that leaves out the rows not crawled yet
GetAllSelectCrawled(tbl) == SelectSeq(tbl, LAMBDA r : r.status = "crawled")

\* SELECT * FROM knowledge ORDER BY updatedAt DESC
GetAllSelect(tbl) == tbl

GetAll ==
    /\ Accept
    /\ last' = Step("GetAll", NoUrl, Reply(200, [knowledge |-> GetAllSelect(knowledge)]))
    /\ UNCHANGED <<knowledge, crawls, crawlAll, recrawlAll, bulkCrawl, browsers>>

(***************************************************************************)
(* POST /crawl {url} and POST /crawl-single {url}                          *)
(***************************************************************************)
\* the handler up to `await crawlUrl(url)`
CrawlRequest(op, url, slot) ==
    /\ Accept
    /\ IF url = NoUrl
       THEN /\ last' = Step(op, url, MissingUrl)
            /\ UNCHANGED <<knowledge, crawls, browsers>>
       ELSE /\ crawls[slot] = Idle
            /\ knowledge' = InsertOrIgnore(knowledge, url, "pending")
            /\ crawls' = [crawls EXCEPT ![slot] = [ep |-> op, url |-> url]]
            /\ browsers' = Launch(browsers)
            /\ last' = Step(op, url, NoResp)
    /\ UNCHANGED <<crawlAll, recrawlAll, bulkCrawl>>

PostCrawl(url, slot) == CrawlRequest("PostCrawl", url, slot)

PostCrawlSingle(url, slot) == CrawlRequest("PostCrawlSingle", url, slot)

\* res.status(500).json(...) of the failure path: /crawl-single adds retryable
CrawlFailureBody(op, result) ==
    IF op = "PostCrawlSingle"
    THEN [error |-> result.error, errorType |-> result.errorType,
          retryable |-> result.retryable]
    ELSE [error |-> result.error, errorType |-> result.errorType]

\* the handler from the return of crawlUrl: the UPDATE and the response
CrawlReturn(op, step, slot) ==
    /\ crawls[slot] # Idle
    /\ crawls[slot].ep = op
    /\ LET url == crawls[slot].url
       IN \/ \E result \in crawlUrl(url) :
            IF result.success
            THEN LET tags == extractTags(result.content, url)
                 IN /\ knowledge' = SetCrawled(knowledge, url, tags,
                                               Slice(result.content, ContentCap))
                    /\ last' = Step(step, url,
                           Reply(200, [success |-> TRUE, tags |-> tags,
                                       preview |-> Slice(result.content, ContentCap)]))
            ELSE /\ knowledge' = SetFailed(knowledge, url, result.error)
                 /\ last' = Step(step, url, Reply(500, CrawlFailureBody(op, result)))
          \/ \E e \in crawlUrlThrows(url) :
               /\ knowledge' = SetFailed(knowledge, url, e.message)
               /\ last' = Step(step, url, Reply(500, [error |-> e.message]))
    /\ crawls' = [crawls EXCEPT ![slot] = Idle]
    /\ browsers' = Close(browsers)
    /\ UNCHANGED <<crawlAll, recrawlAll, bulkCrawl, nreq>>

PostCrawlReturn(slot) == CrawlReturn("PostCrawl", "PostCrawlReturn", slot)

PostCrawlSingleReturn(slot) == CrawlReturn("PostCrawlSingle", "PostCrawlSingleReturn", slot)

(***************************************************************************)
(* DELETE /remove {url} and DELETE /clear                                  *)
(***************************************************************************)
DeleteRemove(url) ==
    /\ Accept
    /\ IF url = NoUrl
       THEN /\ last' = Step("DeleteRemove", url, MissingUrl)
            /\ UNCHANGED knowledge
       ELSE /\ knowledge' = DeleteWhereUrl(knowledge, url)
            /\ last' = Step("DeleteRemove", url,
                            Reply(200, [success |-> TRUE, deleted |-> HasRow(knowledge, url)]))
    /\ UNCHANGED <<crawls, crawlAll, recrawlAll, bulkCrawl, browsers>>

DeleteClear ==
    /\ Accept
    /\ knowledge' = DeleteAll(knowledge)
    /\ last' = Step("DeleteClear", NoUrl,
                    Reply(200, [success |-> TRUE, deleted |-> Len(knowledge)]))
    /\ UNCHANGED <<crawls, crawlAll, recrawlAll, bulkCrawl, browsers>>

(***************************************************************************)
(* POST /add-wallet-info {walletName, lnurlFeatures, description?, url?,   *)
(* tags?}                                                                  *)
(***************************************************************************)
PostAddWalletInfo(url, tags) ==
    /\ Accept
    /\ LET target == IF url = NoUrl THEN WalletSearchUrl ELSE url
           stored == IF tags # Absent THEN tags.v ELSE WalletTags
       IN /\ knowledge' = InsertOrReplace(knowledge,
                 Row(target, "protected", Json(stored), WalletContent, NULL, NULL))
          /\ last' = Step("PostAddWalletInfo", target, Reply(200, [success |-> TRUE]))
    /\ UNCHANGED <<crawls, crawlAll, recrawlAll, bulkCrawl, browsers>>

\* walletName or lnurlFeatures missing
PostAddWalletInfoInvalid ==
    /\ Accept
    /\ last' = Step("PostAddWalletInfo", NoUrl,
                    Reply(400, [error |-> "Wallet name and LNURL features are required"]))
    /\ UNCHANGED <<knowledge, crawls, crawlAll, recrawlAll, bulkCrawl, browsers>>

(***************************************************************************)
(* POST /crawl-all                                                         *)
(***************************************************************************)
\* the orders in which a SELECT without ORDER BY may return the rows of S
Orders(S) ==
    { q \in [1..Cardinality(S) -> S] : \A i, j \in 1..Cardinality(S) : i # j => q[i] # q[j] }

\* errorTypes[t] = (errorTypes[t] || 0) + 1
Bump(errorTypes, t) ==
    [k \in DOMAIN errorTypes \cup {t} |->
        IF k = t THEN (IF t \in DOMAIN errorTypes THEN errorTypes[t] ELSE 0) + 1
        ELSE errorTypes[k]]

NoErrorTypes == [k \in {} |-> 0]

\* a loop that gives up at the first url that failed
StopsOnError(b) == b.i < Len(b.rows) /\ b.errorCount = 0

\* for (const row of rows): rows are left after the pass over rows[i]; no
\* branch of the loop body breaks, returns or rethrows
LoopContinues(b) == b.i < Len(b.rows)

\* a delay whose promise is never resolved
DelayNeverOver(b) == FALSE

\* await new Promise(resolve => setTimeout(resolve, 1000)): the timer fires
DelayOver(b) == b.phase = "delay"

\* a SELECT that leaves out only the protected rows
CrawlAllSelectAll(tbl) ==
    { tbl[i].url : i \in { j \in 1..Len(tbl) : tbl[j].status # "protected" } }

\* SELECT url FROM knowledge WHERE status = 'pending' OR status = 'failed'
CrawlAllSelect(tbl) ==
    { tbl[i].url : i \in { j \in 1..Len(tbl) : tbl[j].status \in {"pending", "failed"} } }

\* the handler up to the first `await crawlUrl(row.url)`
PostCrawlAll ==
    /\ Accept
    /\ crawlAll = Idle
    /\ \E rows \in Orders(CrawlAllSelect(knowledge)) :
         IF Len(rows) = 0
         THEN /\ last' = Step("PostCrawlAll", NoUrl,
                    Reply(200, [success |-> TRUE,
                                message |-> "No pending or failed entries to crawl"]))
              /\ UNCHANGED <<crawlAll, browsers>>
         ELSE /\ crawlAll' = [ep |-> "PostCrawlAll", phase |-> "crawl", rows |-> rows,
                              i |-> 1, results |-> <<>>, successCount |-> 0,
                              errorCount |-> 0, errorTypes |-> NoErrorTypes,
                              open |-> Launch(0)]
              /\ browsers' = Launch(browsers)
              /\ last' = Step("PostCrawlAll", NoUrl, NoResp)
    /\ UNCHANGED <<knowledge, crawls, recrawlAll, bulkCrawl>>

\* one pass of the loop body from the return of crawlUrl to the 1 s delay
CrawlAllReturn ==
    /\ crawlAll # Idle
    /\ crawlAll.phase = "crawl"
    /\ LET url == crawlAll.rows[crawlAll.i]
       IN \/ \E result \in crawlUrl(url) :
            /\ last' = Step("CrawlAllReturn", url, NoResp)
            /\ IF result.success
               THEN /\ knowledge' = SetCrawled(knowledge, url,
                                               extractTags(result.content, url),
                                               Slice(result.content, ContentCap))
                    /\ crawlAll' = [crawlAll EXCEPT
                           !.phase = "delay", !.open = Close(@),
                           !.successCount = @ + 1,
                           !.results = Append(@, [url |-> url, status |-> "success"])]
               ELSE /\ knowledge' = SetFailed(knowledge, url, result.error)
                    /\ crawlAll' = [crawlAll EXCEPT
                           !.phase = "delay", !.open = Close(@),
                           !.errorCount = @ + 1,
                           !.errorTypes = Bump(@, result.errorType),
                           !.results = Append(@, [url |-> url, status |-> "error",
                                                  error |-> result.error,
                                                  errorType |-> result.errorType])]
          \/ \E e \in crawlUrlThrows(url) :
               /\ last' = Step("CrawlAllReturn", url, NoResp)
               /\ knowledge' = SetFailed(knowledge, url, e.message)
               /\ crawlAll' = [crawlAll EXCEPT
                      !.phase = "delay", !.open = Close(@),
                      !.errorCount = @ + 1,
                      !.results = Append(@, [url |-> url, status |-> "error",
                                             error |-> e.message])]
    /\ browsers' = Close(browsers)
    /\ UNCHANGED <<crawls, recrawlAll, bulkCrawl, nreq>>

\* the delay is over: the next pass starts, or the loop ends and the summary
\* is sent
CrawlAllDelay ==
    /\ crawlAll # Idle
    /\ DelayOver(crawlAll)
    /\ IF LoopContinues(crawlAll)
       THEN /\ crawlAll' = [crawlAll EXCEPT !.phase = "crawl", !.i = @ + 1,
                                            !.open = Launch(@)]
            /\ browsers' = Launch(browsers)
            /\ last' = Step("CrawlAllDelay", NoUrl, NoResp)
       ELSE /\ crawlAll' = Idle
            /\ UNCHANGED browsers
            /\ last' = Step("CrawlAllDelay", NoUrl,
                   Reply(200, [success |-> TRUE,
                               results |-> crawlAll.results,
                               errorTypes |-> crawlAll.errorTypes,
                               summary |-> [total |-> Len(crawlAll.rows),
                                            success |-> crawlAll.successCount,
                                            errors |-> crawlAll.errorCount,
                                            errorBreakdown |-> crawlAll.errorTypes]]))
    /\ UNCHANGED <<knowledge, crawls, recrawlAll, bulkCrawl, nreq>>

(***************************************************************************)
(* POST /recrawl-all: the handler registered first (line 1035).  Express   *)
(* hands the request to it and it always answers, so the second handler of *)
(* the same route (line 1231) never runs.                                  *)
(***************************************************************************)
\* a SELECT that returns the rows oldest first
RecrawlAllSelectAsc(tbl) == [i \in 1..Len(tbl) |-> tbl[Len(tbl) + 1 - i]]

\* SELECT * FROM knowledge ORDER BY updatedAt DESC
RecrawlAllSelect(tbl) == tbl

\* the registry of recrawl sources as the module creates it: six sources,
\* all enabled
RECRAWL_SOURCES ==
    { [url |-> "https://bitcoinops.org", enabled |-> TRUE],
      [url |-> "https://groups.google.com/g/bitcoin-list", enabled |-> TRUE],
      [url |-> "https://lightning.engineering", enabled |-> TRUE],
      [url |-> "https://lnbits.com", enabled |-> TRUE],
      [url |-> "https://cashu.space", enabled |-> TRUE],
      [url |-> "https://nostr.com", enabled |-> TRUE] }

\* row.tags ? JSON.parse(row.tags) : []
OldTags(row) == IF row.tags = NULL THEN <<>> ELSE row.tags.json

\* row.content ? row.content.length : 0
OldContentLength(row) == IF row.content = NULL THEN 0 ELSE row.content.len

PostRecrawlAll ==
    /\ Accept
    /\ recrawlAll = Idle
    /\ LET rows == RecrawlAllSelect(knowledge)
       IN IF Len(rows) = 0
          THEN /\ last' = Step("PostRecrawlAll", NoUrl,
                      Reply(200, [success |-> TRUE, message |-> "No entries to recrawl"]))
               /\ UNCHANGED <<recrawlAll, browsers>>
          ELSE /\ recrawlAll' = [ep |-> "PostRecrawlAll", phase |-> "crawl", rows |-> rows,
                                 i |-> 1, results |-> <<>>, successCount |-> 0,
                                 errorCount |-> 0, errorTypes |-> NoErrorTypes,
                                 improvements |-> <<>>, open |-> Launch(0)]
               /\ browsers' = Launch(browsers)
               /\ last' = Step("PostRecrawlAll", NoUrl, NoResp)
    /\ UNCHANGED <<knowledge, crawls, crawlAll, bulkCrawl>>

\* an entry listed only when tags and content both grew
ImprovedBoth(tagImprovement, contentImprovement) == tagImprovement /\ contentImprovement

\* if (tagImprovement || contentImprovement)
Improved(tagImprovement, contentImprovement) == tagImprovement \/ contentImprovement

RecrawlAllReturn ==
    /\ recrawlAll # Idle
    /\ recrawlAll.phase = "crawl"
    /\ LET row == recrawlAll.rows[recrawlAll.i]
       IN \/ \E result \in crawlUrl(row.url) :
            /\ last' = Step("RecrawlAllReturn", row.url, NoResp)
            /\ IF result.success
               THEN LET newTags == extractTags(result.content, row.url)
                        oldTags == OldTags(row)
                        tagImprovement == Len(newTags) > Len(oldTags)
                        contentImprovement == result.content.len > OldContentLength(row)
                        improvement == [url |-> row.url,
                                        tagImprovement |-> tagImprovement,
                                        contentImprovement |-> contentImprovement,
                                        oldTags |-> Len(oldTags),
                                        newTags |-> Len(newTags),
                                        oldContentLength |-> OldContentLength(row),
                                        newContentLength |-> result.content.len]
                    IN /\ knowledge' = SetCrawled(knowledge, row.url, newTags,
                                                  Slice(result.content, ContentCap))
                       /\ recrawlAll' = [recrawlAll EXCEPT
                              !.phase = "delay", !.open = Close(@),
                              !.successCount = @ + 1,
                              !.improvements = IF Improved(tagImprovement, contentImprovement)
                                               THEN Append(@, improvement) ELSE @,
                              !.results = Append(@,
                                  [url |-> row.url, status |-> "success",
                                   improvements |->
                                       [tagImprovement |-> tagImprovement,
                                        contentImprovement |-> contentImprovement]])]
               ELSE /\ knowledge' = SetFailed(knowledge, row.url, result.error)
                    /\ recrawlAll' = [recrawlAll EXCEPT
                           !.phase = "delay", !.open = Close(@),
                           !.errorCount = @ + 1,
                           !.errorTypes = Bump(@, result.errorType),
                           !.results = Append(@, [url |-> row.url, status |-> "error",
                                                  error |-> result.error,
                                                  errorType |-> result.errorType])]
          \/ \E e \in crawlUrlThrows(row.url) :
               /\ last' = Step("RecrawlAllReturn", row.url, NoResp)
               /\ knowledge' = SetFailed(knowledge, row.url, e.message)
               /\ recrawlAll' = [recrawlAll EXCEPT
                      !.phase = "delay", !.open = Close(@),
                      !.errorCount = @ + 1,
                      !.results = Append(@, [url |-> row.url, status |-> "error",
                                             error |-> e.message])]
    /\ browsers' = Close(browsers)
    /\ UNCHANGED <<crawls, crawlAll, bulkCrawl, nreq>>

RecrawlAllDelay ==
    /\ recrawlAll # Idle
    /\ DelayOver(recrawlAll)
    /\ IF LoopContinues(recrawlAll)
       THEN /\ recrawlAll' = [recrawlAll EXCEPT !.phase = "crawl", !.i = @ + 1,
                                                !.open = Launch(@)]
            /\ browsers' = Launch(browsers)
            /\ last' = Step("RecrawlAllDelay", NoUrl, NoResp)
       ELSE /\ recrawlAll' = Idle
            /\ UNCHANGED browsers
            /\ last' = Step("RecrawlAllDelay", NoUrl,
                   Reply(200, [success |-> TRUE,
                               results |-> recrawlAll.results,
                               errorTypes |-> recrawlAll.errorTypes,
                               improvements |-> recrawlAll.improvements,
                               summary |-> [total |-> Len(recrawlAll.rows),
                                            success |-> recrawlAll.successCount,
                                            errors |-> recrawlAll.errorCount,
                                            improvements |-> Len(recrawlAll.improvements),
                                            errorBreakdown |-> recrawlAll.errorTypes]]))
    /\ UNCHANGED <<knowledge, crawls, crawlAll, bulkCrawl, nreq>>

(***************************************************************************)
(* The router of unnamed/part_007.  Its /remove and /clear run the same    *)
(* statements as those above; its /add, /crawl and /bulk-crawl follow.     *)
(***************************************************************************)
P7ContentCap == 200

P7staticTags ==
    << "bitcoin", "lightning", "nostr", "hardware", "software", "cashu", "wallet",
       "node", "api", "extension", "protocol" >>

P7stopWords == stopWords \ {"electronic", "cash"}

RECURSIVE P7SelectWords(_)
P7SelectWords(s) ==
    IF s = <<>> THEN <<>>
    ELSE IF Len(Head(s)) >= 3 /\ Len(Head(s)) <= 20 /\ Head(s) \notin P7stopWords
         THEN <<Head(s)>> \o P7SelectWords(Tail(s))
         ELSE P7SelectWords(Tail(s))

P7extractTags(content, url, metadata) ==
    LET foundStatic == FoundStatic(P7staticTags, content.words, url)
        filteredWords == DropWords(P7SelectWords(content.words), uiWords)
        sortedWords == Take(SortByCount(Dedupe(filteredWords), filteredWords), TopWords)
        metadataTags ==
            (IF Len(metadata.socialLinks) > 0 THEN <<"social">> ELSE <<>>)
            \o (IF Len(metadata.emails) > 0 THEN <<"contact">> ELSE <<>>)
            \o (IF Len(metadata.marketingTags) > 0 THEN <<"analytics">> ELSE <<>>)
    IN Take(Dedupe(foundStatic \o sortedWords \o metadataTags), MaxTags)

\* new URL(url).protocol and .hostname of the urls of the model
UrlProtocol(url) == IF IsPrefix("https:", url) THEN "https:" ELSE "http:"

UrlHostname(url) ==
    IF url = InternalUrl THEN "localhost"
    ELSE IF url = WalletsUrl THEN "bitcoin.org"
    ELSE IF url = GuideUrl THEN "example.com"
    ELSE "github.com"

\* the url check of /crawl and /bulk-crawl: the error it answers, or "ok"
P7UrlCheck(url) ==
    IF UrlProtocol(url) \notin {"http:", "https:"}
    THEN "Invalid URL protocol. Only HTTP and HTTPS are allowed."
    ELSE LET hostname == UrlHostname(url)
         IN IF hostname \in {"localhost", "127.0.0.1", "0.0.0.0"}
               \/ IsPrefix("192.168.", hostname) \/ IsPrefix("10.", hostname)
               \/ IsPrefix("172.", hostname)
            THEN "Local/internal URLs are not allowed for security reasons."
            ELSE "ok"

\* what extractEnhancedContent finds on the page of the model
P7Pages ==
    { [visibleText |-> [words |-> <<"nwc", "for", "bitcoin", "wallets">>, len |-> 240],
       socialLinks |-> <<"https://github.com/bitcoin">>, emails |-> <<>>,
       marketingTags |-> <<>>] }

\* the ways the try block of /crawl ends: the page read, or an exception of
\* launch, goto, waitForSelector or the extraction
P7Outcomes ==
    { [success |-> TRUE, page |-> pg] : pg \in P7Pages }
    \cup { [success |-> FALSE, error |-> m] : m \in ErrorMessages }

P7Metadata(page) ==
    [socialLinks |-> page.socialLinks, emails |-> page.emails,
     marketingTags |-> page.marketingTags]

P7PostAdd(url) ==
    /\ Accept
    /\ IF url = NoUrl
       THEN /\ last' = Step("P7PostAdd", url, MissingUrl)
            /\ UNCHANGED knowledge
       ELSE /\ knowledge' = InsertOrIgnore(knowledge, url, "pending")
            /\ last' = Step("P7PostAdd", url, Reply(200, [success |-> TRUE]))
    /\ UNCHANGED <<crawls, crawlAll, recrawlAll, bulkCrawl, browsers>>

\* POST /crawl up to `await puppeteer.launch`
P7PostCrawl(url, slot) ==
    /\ Accept
    /\ IF url = NoUrl
       THEN /\ last' = Step("P7PostCrawl", url, MissingUrl)
            /\ UNCHANGED <<knowledge, crawls, browsers>>
       ELSE IF P7UrlCheck(url) # "ok"
       THEN /\ last' = Step("P7PostCrawl", url, Reply(400, [error |-> P7UrlCheck(url)]))
            /\ UNCHANGED <<knowledge, crawls, browsers>>
       ELSE /\ crawls[slot] = Idle
            /\ knowledge' = InsertOrReplace(knowledge,
                                Row(url, "crawling", NULL, NULL, NULL, NULL))
            /\ crawls' = [crawls EXCEPT ![slot] = [ep |-> "P7PostCrawl", url |-> url]]
            /\ browsers' = Launch(browsers)
            /\ last' = Step("P7PostCrawl", url, NoResp)
    /\ UNCHANGED <<crawlAll, recrawlAll, bulkCrawl>>

\* POST /crawl from the end of the try block: the UPDATE and the response
P7PostCrawlReturn(slot) ==
    /\ crawls[slot] # Idle
    /\ crawls[slot].ep = "P7PostCrawl"
    /\ LET url == crawls[slot].url
       IN \E outcome \in P7Outcomes :
            IF outcome.success
            THEN LET cleanedContent == outcome.page.visibleText
                     metadata == P7Metadata(outcome.page)
                     tags == P7extractTags(cleanedContent, url, metadata)
                     set == [status |-> "crawled", tags |-> Json(tags),
                             content |-> Slice(cleanedContent, P7ContentCap),
                             metadata |-> [json |-> metadata],
                             errorMsg |-> NULL]
                 IN /\ knowledge' = UpdateWhereUrl(knowledge, url, set)
                    /\ browsers' = Close(browsers)
                    /\ last' = Step("P7PostCrawlReturn", url,
                           Reply(200, [success |-> TRUE, tags |-> tags,
                                       preview |-> Slice(cleanedContent, P7ContentCap)]))
            ELSE LET set == [status |-> "error", errorMsg |-> [message |-> outcome.error]]
                 IN /\ knowledge' = UpdateWhereUrl(knowledge, url, set)
                    /\ UNCHANGED browsers
                    /\ last' = Step("P7PostCrawlReturn", url,
                                    Reply(500, [error |-> outcome.error]))
    /\ crawls' = [crawls EXCEPT ![slot] = Idle]
    /\ UNCHANGED <<crawlAll, recrawlAll, bulkCrawl, nreq>>

(***************************************************************************)
(* POST /bulk-crawl {urls} of unnamed/part_007                             *)
(***************************************************************************)
\* the urls arrays of the model
BulkUrls == UNION { [1..n -> URLs] : n \in 1..MaxBulk }

P7PostBulkCrawl(urls) ==
    /\ Accept
    /\ bulkCrawl = Idle
    /\ bulkCrawl' = [ep |-> "P7PostBulkCrawl", phase |-> "begin", urls |-> urls, i |-> 1,
                     results |-> <<>>, errors |-> <<>>]
    /\ last' = Step("P7PostBulkCrawl", NoUrl, NoResp)
    /\ UNCHANGED <<knowledge, crawls, crawlAll, recrawlAll, browsers>>

P7PostBulkCrawlInvalid ==
    /\ Accept
    /\ last' = Step("P7PostBulkCrawl", NoUrl, Reply(400, [error |-> "Missing urls array"]))
    /\ UNCHANGED <<knowledge, crawls, crawlAll, recrawlAll, bulkCrawl, browsers>>

\* the loop is over: the response
P7BulkCrawlRespond(b) ==
    Reply(200, [success |-> TRUE, total |-> Len(b.urls),
                successful |-> Len(b.results), failed |-> Len(b.errors),
                results |-> b.results, errors |-> b.errors])

\* bulkCrawl after pass i, and the response when that pass was the last
P7BulkCrawlNext(step, url, b) ==
    IF b.i < Len(b.urls)
    THEN /\ bulkCrawl' = [b EXCEPT !.phase = "begin", !.i = @ + 1]
         /\ last' = Step(step, url, NoResp)
    ELSE /\ bulkCrawl' = Idle
         /\ last' = Step(step, url, P7BulkCrawlRespond(b))

\* one pass from its start (after the 3 s delay) to `await puppeteer.launch`:
\* a url that fails the check is recorded and the pass ends
P7BulkCrawlBegin ==
    /\ bulkCrawl # Idle
    /\ bulkCrawl.phase = "begin"
    /\ LET url == bulkCrawl.urls[bulkCrawl.i]
       IN IF P7UrlCheck(url) # "ok"
          THEN /\ P7BulkCrawlNext("P7BulkCrawlBegin", url, [bulkCrawl EXCEPT
                      !.errors = Append(@, [url |-> url,
                                            error |-> "Local/internal URLs not allowed"])])
               /\ UNCHANGED browsers
          ELSE /\ bulkCrawl' = [bulkCrawl EXCEPT !.phase = "crawl"]
               /\ browsers' = Launch(browsers)
               /\ last' = Step("P7BulkCrawlBegin", url, NoResp)
    /\ UNCHANGED <<knowledge, crawls, crawlAll, recrawlAll, nreq>>

\* the rest of the pass: the page read or an exception, and the INSERT OR
\* REPLACE that records it
P7BulkCrawlReturn ==
    /\ bulkCrawl # Idle
    /\ bulkCrawl.phase = "crawl"
    /\ LET url == bulkCrawl.urls[bulkCrawl.i]
       IN \E outcome \in P7Outcomes :
            IF outcome.success
            THEN LET content == outcome.page.visibleText
                     metadata == P7Metadata(outcome.page)
                     tags == P7extractTags(content, url, metadata)
                 IN /\ knowledge' = InsertOrReplace(knowledge,
                          Row(url, "success", Json(tags), content, NULL, [json |-> metadata]))
                    /\ P7BulkCrawlNext("P7BulkCrawlReturn", url, [bulkCrawl EXCEPT
                          !.results = Append(@, [url |-> url, success |-> TRUE,
                                                 tags |-> tags])])
            ELSE /\ knowledge' = InsertOrReplace(knowledge,
                        Row(url, "error", NULL, NULL, [message |-> outcome.error], NULL))
                 /\ P7BulkCrawlNext("P7BulkCrawlReturn", url, [bulkCrawl EXCEPT
                        !.errors = Append(@, [url |-> url, error |-> outcome.error])])
    /\ browsers' = Close(browsers)
    /\ UNCHANGED <<crawls, crawlAll, recrawlAll, nreq>>

(***************************************************************************)
(* The specification.                                                      *)
(***************************************************************************)
ReqUrls == URLs \cup {NoUrl}

ReqTags == {Absent} \cup { [v |-> t] : t \in AddTags }

Next ==
    \/ \E url \in ReqUrls, content \in AddContents \cup {Absent}, tags \in ReqTags :
           PostAdd(url, content, tags)
    \/ GetAll
    \/ \E url \in ReqUrls, slot \in Slots : PostCrawl(url, slot)
    \/ \E slot \in Slots : PostCrawlReturn(slot)
    \/ \E url \in ReqUrls, slot \in Slots : PostCrawlSingle(url, slot)
    \/ \E slot \in Slots : PostCrawlSingleReturn(slot)
    \/ \E url \in ReqUrls : DeleteRemove(url)
    \/ DeleteClear
    \/ \E url \in ReqUrls, tags \in ReqTags : PostAddWalletInfo(url, tags)
    \/ PostAddWalletInfoInvalid
    \/ PostCrawlAll
    \/ CrawlAllReturn
    \/ CrawlAllDelay
    \/ PostRecrawlAll
    \/ RecrawlAllReturn
    \/ RecrawlAllDelay
    \/ \E url \in ReqUrls : P7PostAdd(url)
    \/ \E url \in ReqUrls, slot \in Slots : P7PostCrawl(url, slot)
    \/ \E slot \in Slots : P7PostCrawlReturn(slot)
    \/ \E urls \in BulkUrls : P7PostBulkCrawl(urls)
    \/ P7PostBulkCrawlInvalid
    \/ P7BulkCrawlBegin
    \/ P7BulkCrawlReturn

Spec == Init /\ [][Next]_vars

\* a handler is suspended at `await crawlUrl(...)`
AwaitsCrawl(b) == b # Idle /\ b.phase = "crawl"

\* Every crawl in flight ends: page.goto carries a timeout and crawlUrl
\* catches what it throws, and the timer of the delay fires.  The handlers
\* awaiting a crawl or a delay are therefore resumed, which is weak fairness
\* of their continuations; no request has to arrive.  For the continuations
\* of a crawl, WF_vars(A) is written out as []<>~ENABLED A \/ []<><<A>>_vars
\* with the condition that enables A in the place of ENABLED A.
Fairness ==
    /\ WF_vars(CrawlAllDelay)
    /\ WF_vars(RecrawlAllDelay)
    /\ []<>~AwaitsCrawl(crawlAll) \/ []<><<CrawlAllReturn>>_vars
    /\ []<>~AwaitsCrawl(recrawlAll) \/ []<><<RecrawlAllReturn>>_vars
    /\ \A slot \in Slots :
          []<>~(crawls[slot] # Idle /\ crawls[slot].ep = "PostCrawl")
              \/ []<><<PostCrawlReturn(slot)>>_vars

\* the batches, a single crawl that overlaps them, and a request that
\* deletes the entries under them
LiveNext ==
    \/ PostCrawlAll
    \/ CrawlAllReturn
    \/ CrawlAllDelay
    \/ PostRecrawlAll
    \/ RecrawlAllReturn
    \/ RecrawlAllDelay
    \/ \E slot \in Slots : PostCrawl(WalletsUrl, slot)
    \/ \E slot \in Slots : PostCrawlReturn(slot)
    \/ DeleteClear

LiveSpec == Init /\ [][LiveNext]_vars /\ Fairness

(***************************************************************************)
(* crawlUrl on its failure path, one exception at a time: the try block    *)
(* throws an error with some message, and the catch block classifies it    *)
(* and returns.                                                            *)
(***************************************************************************)
\* the pieces the messages of the thrown errors are made of: the error codes
\* of the engine, the generic words classifyError looks for, and urls, which
\* Chromium puts into the message of a failed navigation
MessagePieces ==
    { "net::ERR_CONNECTION_REFUSED", "net::ERR_NAME_NOT_RESOLVED",
      "net::ERR_CONNECTION_TIMED_OUT", "net::ERR_SSL_PROTOCOL_ERROR",
      "net::ERR_BLOCKED_BY_CLIENT", "net::ERR_INVALID_URL",
      "Navigation", "timeout", "connection", "refused", "dns", "SSL", "blocked",
      "at", "failed", "https://bitcoin.org/wallets", "https://example.com/timeout",
      "https://dns.example.com/" }

MaxPieces == 2

\* e.message of the errors thrown in the try block of crawlUrl
ThrownMessages ==
    UNION { [1..n -> MessagePieces] : n \in 1..MaxPieces } \cup {DnsMessage, BlockedMessage}

\* the try block of crawlUrl(url) has thrown an error with some message
ThrowInit ==
    /\ knowledge = <<>>
    /\ crawls = [slot \in Slots |-> Idle]
    /\ crawlAll = Idle
    /\ recrawlAll = Idle
    /\ bulkCrawl = Idle
    /\ nreq = 0
    /\ browsers = 1
    /\ \E url \in URLs, message \in ThrownMessages :
          last = Step("crawlUrlThrow", url, [sent |-> FALSE, message |-> message])

\* catch (e): the browser is closed and the failure value returned
CrawlUrlCatch ==
    /\ last.op = "crawlUrlThrow"
    /\ browsers' = Close(browsers)
    /\ last' = Step("crawlUrlCatch", last.url,
                    [sent |-> FALSE, message |-> last.resp.message,
                     returned |-> crawlUrlCatch(last.resp.message)])
    /\ UNCHANGED <<knowledge, crawls, crawlAll, recrawlAll, bulkCrawl, nreq>>

ClassifySpec == ThrowInit /\ [][CrawlUrlCatch]_vars

(***************************************************************************)
(* One crawl, page by page: what crawlUrl and the handlers make of a page  *)
(* from page.goto on.  A page is a record                                  *)
(*   nav       page.goto(url) succeeds                                     *)
(*   body      the document has a body element                             *)
(*   evaluate  page.evaluate of the extractor runs without an exception    *)
(*   title, meta, text   the title, the meta description and the visible   *)
(*             text of the body                                            *)
(***************************************************************************)
EmptyText == [words |-> <<>>, len |-> 0]

\* <title>Foo</title>
FooTitle == [words |-> <<"foo">>, len |-> 3]

\* <title>Lightning Wallet Guide</title>
GuideTitle == [words |-> <<"lightning", "wallet", "guide">>, len |-> 22]

\* <meta name="description" content="A guide to lightning payments">
GuideMeta == [words |-> <<"a", "guide", "to", "lightning", "payments">>, len |-> 29]

\* a body of one sentence of 120 characters without a full stop
WalletsText ==
    [words |-> <<"bitcoin", "wallets", "for", "lightning", "payments", "and", "nostr">>,
     len |-> 120]

\* 'Content not accessible via crawling'
NotAccessible ==
    [words |-> <<"content", "not", "accessible", "via", "crawling">>, len |-> 35]

Pages ==
    { pg \in [nav : BOOLEAN, body : BOOLEAN, evaluate : BOOLEAN,
              title : {EmptyText, FooTitle, GuideTitle},
              meta : {EmptyText, GuideMeta},
              text : {EmptyText, ShortText, WalletsText}] :
        ~pg.body => pg.text = EmptyText }

\* `${metaDescription} ${pageTitle}`.trim()
MetaAndTitle(page) ==
    [words |-> page.meta.words \o page.title.words,
     len |-> IF page.meta.len = 0 THEN page.title.len
             ELSE IF page.title.len = 0 THEN page.meta.len
             ELSE page.meta.len + 1 + page.title.len]

\* extractGeneralContent: the visible text of document.body, '' when there
\* is no body; the meta description and title only when page.evaluate throws
extractGeneralContent(page) ==
    IF page.evaluate
    THEN IF page.body THEN page.text ELSE EmptyText
    ELSE MetaAndTitle(page)

\* extractBitcoinContent: none of the content selectors matches on the pages
\* of the model, so the text is document.body.textContent, which throws
\* when there is no body; a text under 100 characters gives way to the meta
\* description and title
extractBitcoinContent(page) ==
    IF page.evaluate /\ page.body
    THEN IF page.text.len < 100 THEN MetaAndTitle(page) ELSE page.text
    ELSE MetaAndTitle(page)

\* processContent on a text of one sentence of at most 299 characters that
\* holds none of the names it rewrites: under 10 characters the placeholder,
\* over 50 the sentence with a full stop added
processContent(content) ==
    IF content.len < 10 THEN NotAccessible
    ELSE IF content.len > 50 THEN [content EXCEPT !.len = @ + 1]
    ELSE content

\* crawlUrl(url) on the page: the extractor is chosen by the url
crawlUrlPage(url, page) ==
    IF ~page.nav THEN crawlUrlCatch(DnsMessage)
    ELSE LET mainText == IF "bitcoin" \in UrlTerms(url)
                         THEN extractBitcoinContent(page)
                         ELSE extractGeneralContent(page)
         IN [success |-> TRUE, content |-> processContent(mainText),
             title |-> page.title, description |-> page.meta]

\* 'Waiting for selector `body` failed'
WaitMessage == <<"Waiting", "for", "selector", "body", "failed">>

\* 'Evaluation failed'
EvaluationMessage == <<"Evaluation", "failed">>

\* the try block of /crawl of unnamed/part_007 on the page: goto,
\* waitForSelector('body') and extractEnhancedContent are awaited without a
\* catch of their own
P7CrawlPage(page) ==
    IF ~page.nav THEN [success |-> FALSE, error |-> DnsMessage]
    ELSE IF ~page.body THEN [success |-> FALSE, error |-> WaitMessage]
    ELSE IF ~page.evaluate THEN [success |-> FALSE, error |-> EvaluationMessage]
    ELSE [success |-> TRUE,
          page |-> [visibleText |-> page.text, socialLinks |-> <<>>, emails |-> <<>>,
                    marketingTags |-> <<>>]]

PageUrls == {WalletsUrl, GuideUrl}

\* a pending entry for the url, and the page the url serves
PageInit ==
    /\ crawls = [slot \in Slots |-> Idle]
    /\ crawlAll = Idle
    /\ recrawlAll = Idle
    /\ bulkCrawl = Idle
    /\ nreq = 0
    /\ browsers = 0
    /\ \E url \in PageUrls, page \in Pages :
          /\ knowledge = <<Row(url, "pending", NULL, NULL, NULL, NULL)>>
          /\ last = [op |-> "page", url |-> url, resp |-> NoResp, page |-> page]

\* the writes of /crawl for the result of crawlUrl
PostCrawlWrite(tbl, url, result) ==
    IF result.success
    THEN SetCrawled(InsertOrIgnore(tbl, url, "pending"), url,
                    extractTags(result.content, url), Slice(result.content, ContentCap))
    ELSE SetFailed(InsertOrIgnore(tbl, url, "pending"), url, result.error)

\* POST /crawl {url} on the page
PagePostCrawl ==
    /\ last.op = "page"
    /\ LET result == crawlUrlPage(last.url, last.page)
       IN /\ knowledge' = PostCrawlWrite(knowledge, last.url, result)
          /\ last' = [last EXCEPT
                 !.op = "PostCrawl",
                 !.resp = IF result.success
                          THEN Reply(200, [success |-> TRUE,
                                           tags |-> extractTags(result.content, last.url),
                                           preview |-> Slice(result.content, ContentCap)])
                          ELSE Reply(500, CrawlFailureBody("PostCrawl", result))]
    /\ UNCHANGED <<crawls, crawlAll, recrawlAll, bulkCrawl, nreq, browsers>>

\* POST /crawl-single {url} on the page
PagePostCrawlSingle ==
    /\ last.op = "page"
    /\ LET result == crawlUrlPage(last.url, last.page)
           tbl == InsertOrIgnore(knowledge, last.url, "pending")
       IN IF result.success
          THEN LET tags == extractTags(result.content, last.url)
               IN /\ knowledge' = SetCrawled(tbl, last.url, tags,
                                             Slice(result.content, ContentCap))
                  /\ last' = [last EXCEPT
                         !.op = "PostCrawlSingle",
                         !.resp = Reply(200, [success |-> TRUE, tags |-> tags,
                                              preview |-> Slice(result.content, ContentCap),
                                              title |-> result.title,
                                              description |-> result.description])]
          ELSE /\ knowledge' = SetFailed(tbl, last.url, result.error)
               /\ last' = [last EXCEPT
                      !.op = "PostCrawlSingle",
                      !.resp = Reply(500, CrawlFailureBody("PostCrawlSingle", result))]
    /\ UNCHANGED <<crawls, crawlAll, recrawlAll, bulkCrawl, nreq, browsers>>

\* POST /crawl-all: the pass of its loop over the pending entry
PageCrawlAll ==
    /\ last.op = "page"
    /\ last.url \in CrawlAllSelect(knowledge)
    /\ LET result == crawlUrlPage(last.url, last.page)
       IN /\ knowledge' =
                IF result.success
                THEN SetCrawled(knowledge, last.url, extractTags(result.content, last.url),
                                Slice(result.content, ContentCap))
                ELSE SetFailed(knowledge, last.url, result.error)
          /\ last' = [last EXCEPT !.op = "PostCrawlAll"]
    /\ UNCHANGED <<crawls, crawlAll, recrawlAll, bulkCrawl, nreq, browsers>>

\* POST /recrawl-all: the pass of its loop over the entry
PageRecrawlAll ==
    /\ last.op = "page"
    /\ LET row == RecrawlAllSelect(knowledge)[1]
           result == crawlUrlPage(row.url, last.page)
       IN /\ knowledge' =
                IF result.success
                THEN SetCrawled(knowledge, row.url, extractTags(result.content, row.url),
                                Slice(result.content, ContentCap))
                ELSE SetFailed(knowledge, row.url, result.error)
          /\ last' = [last EXCEPT !.op = "PostRecrawlAll"]
    /\ UNCHANGED <<crawls, crawlAll, recrawlAll, bulkCrawl, nreq, browsers>>

\* POST /crawl {url} of unnamed/part_007 on the page
P7PagePostCrawl ==
    /\ last.op = "page"
    /\ P7UrlCheck(last.url) = "ok"
    /\ LET url == last.url
           tbl == InsertOrReplace(knowledge, Row(url, "crawling", NULL, NULL, NULL, NULL))
           outcome == P7CrawlPage(last.page)
       IN IF outcome.success
          THEN LET cleanedContent == outcome.page.visibleText
                   metadata == P7Metadata(outcome.page)
                   tags == P7extractTags(cleanedContent, url, metadata)
               IN /\ knowledge' = UpdateWhereUrl(tbl, url,
                         [status |-> "crawled", tags |-> Json(tags),
                          content |-> Slice(cleanedContent, P7ContentCap),
                          metadata |-> [json |-> metadata], errorMsg |-> NULL])
                  /\ last' = [last EXCEPT
                         !.op = "P7PostCrawl",
                         !.resp = Reply(200, [success |-> TRUE, tags |-> tags,
                                              preview |-> Slice(cleanedContent,
                                                                P7ContentCap)])]
          ELSE /\ knowledge' = UpdateWhereUrl(tbl, url,
                      [status |-> "error", errorMsg |-> [message |-> outcome.error]])
               /\ last' = [last EXCEPT
                      !.op = "P7PostCrawl",
                      !.resp = Reply(500, [error |-> outcome.error])]
    /\ UNCHANGED <<crawls, crawlAll, recrawlAll, bulkCrawl, nreq, browsers>>

PageNext ==
    \/ PagePostCrawl
    \/ PagePostCrawlSingle
    \/ PageCrawlAll
    \/ PageRecrawlAll
    \/ P7PagePostCrawl

PageSpec == PageInit /\ [][PageNext]_vars

(***************************************************************************)
(* The searches: GET /search of both routers and GET /semantic-search, on  *)
(* a table earlier requests left.  A query is kept as its words, which a   *)
(* single blank separates in the query string; <<>> is the request without *)
(* q.                                                                      *)
(***************************************************************************)
\* 'wallet setup for lightning node'
ApartText == [words |-> <<"wallet", "setup", "for", "lightning", "node">>, len |-> 31]

\* 'bitcoin wallet backup'
BackupText == [words |-> <<"bitcoin", "wallet", "backup">>, len |-> 21]

\* 'cashu ecash mint'
MintText == [words |-> <<"cashu", "ecash", "mint">>, len |-> 16]

\* 'run a node'
NodeText == [words |-> <<"run", "a", "node">>, len |-> 10]

\* the entry /add of backend/routes/knowledge.js stores for a content sent
\* with the tags
AddedRow(url, content, tags) == Row(url, "crawled", Json(tags), content, NULL, NULL)

\* the entry a crawl of backend/routes/knowledge.js leaves for the content
CrawledRow(url, content) ==
    Row(url, "crawled", Json(extractTags(content, url)), Slice(content, ContentCap),
        NULL, NULL)

\* the entry /crawl of unnamed/part_007 leaves for a page without visible
\* text: the content is '' and the tags come from the url
P7EmptyRow(url) ==
    LET metadata == [socialLinks |-> <<>>, emails |-> <<>>, marketingTags |-> <<>>]
    IN Row(url, "crawled", Json(P7extractTags(EmptyText, url, metadata)), EmptyText,
           NULL, [json |-> metadata])

SearchRows ==
    { CrawledRow("https://example.com/both", ShortText),
      CrawledRow("https://example.com/apart", ApartText),
      CrawledRow("https://example.com/backup", BackupText),
      CrawledRow("https://example.com/mint", MintText),
      AddedRow("https://example.com/node", NodeText, <<>>),
      Row(GuideUrl, "pending", NULL, NULL, NULL, NULL),
      P7EmptyRow(WalletsUrl) }

MaxRows == 3

\* twelve crawled pages, the texts taking turns
ManyUrls ==
    << "https://example.com/p01", "https://example.com/p02", "https://example.com/p03",
       "https://example.com/p04", "https://example.com/p05", "https://example.com/p06",
       "https://example.com/p07", "https://example.com/p08", "https://example.com/p09",
       "https://example.com/p10", "https://example.com/p11", "https://example.com/p12" >>

ManyRows ==
    [i \in 1..Len(ManyUrls) |->
        CrawledRow(ManyUrls[i], IF i % 3 = 0 THEN ShortText
                                ELSE IF i % 3 = 1 THEN BackupText ELSE ApartText)]

\* the tables searched: up to MaxRows of the rows above in any order of
\* updatedAt, and the table of the twelve pages
SearchTables ==
    { t \in UNION { [1..n -> SearchRows] : n \in 0..MaxRows } :
        \A i, j \in 1..Len(t) : i # j => t[i].url # t[j].url }
    \cup {ManyRows}

Queries ==
    { <<>>, <<"wallet">>, <<"lightning", "wallet">>, <<"wallet", "lightning">>,
      <<"node">>, <<"mint">> }

\* q.split(' ').filter(word => word.length > 2)
RECURSIVE QueryWords(_)
QueryWords(q) ==
    IF q = <<>> THEN <<>>
    ELSE IF Len(Head(q)) > 2 THEN <<Head(q)>> \o QueryWords(Tail(q))
    ELSE QueryWords(Tail(q))

\* column LIKE '%term%', term one word or the words of a phrase: NULL never
\* matches; the tags column holds the JSON array, where a phrase can only
\* lie inside one tag; a url holds no blank
LikeContent(row, term) == row.content # NULL /\ Includes(row.content.words, term)

LikeTags(row, term) ==
    /\ row.tags # NULL
    /\ \E i \in 1..Len(row.tags.json) : Includes(TermOf(row.tags.json[i]), term)

LikeUrl(row, term) == Len(term) = 1 /\ term[1] \in UrlTerms(row.url)

LikeMetadata(row, term) ==
    /\ row.metadata # NULL
    /\ Len(term) = 1
    /\ \E i \in 1..Len(row.metadata.json.socialLinks) :
          term[1] \in UrlTerms(row.metadata.json.socialLinks[i])

KeywordLimit == 10

\* GET /search?q= of backend/routes/knowledge.js
GetSearch(q) ==
    /\ Accept
    /\ IF q = <<>>
       THEN last' = Step("GetSearch", NoUrl, Reply(400, [error |-> "Missing query parameter"]))
                       @@ [q |-> q]
       ELSE LET rows == SelectSeq(knowledge,
                            LAMBDA r : LikeContent(r, q) \/ LikeTags(r, q) \/ LikeUrl(r, q))
            IN last' = Step("GetSearch", NoUrl, Reply(200, [results |-> Take(rows, KeywordLimit)]))
                           @@ [q |-> q]
    /\ UNCHANGED <<knowledge, crawls, crawlAll, recrawlAll, bulkCrawl, browsers>>

P7MultiLimit == 15
P7SingleLimit == 10

\* one of the conditions joined by AND and by OR: the word in any column
P7Matches(row, word) ==
    \/ LikeContent(row, <<word>>)
    \/ LikeTags(row, <<word>>)
    \/ LikeUrl(row, <<word>>)
    \/ LikeMetadata(row, <<word>>)

\* CASE WHEN (all words) THEN 1 ELSE 2 END as priority
P7Priority(row, queryWords) ==
    IF \A i \in 1..Len(queryWords) : P7Matches(row, queryWords[i]) THEN 1 ELSE 2

\* GET /search?q= of unnamed/part_007 (the queries of the model have two
\* characters or more)
P7GetSearch(q) ==
    /\ Accept
    /\ IF q = <<>>
       THEN last' = Step("P7GetSearch", NoUrl,
                         Reply(400, [error |-> "Missing query parameter"])) @@ [q |-> q]
       ELSE LET queryWords == QueryWords(q)
                any == SelectSeq(knowledge,
                           LAMBDA r : \E i \in 1..Len(queryWords) : P7Matches(r, queryWords[i]))
                withPriority ==
                    [i \in 1..Len(any) |->
                        any[i] @@ [priority |-> P7Priority(any[i], queryWords)]]
                ordered == SelectSeq(withPriority, LAMBDA r : r.priority = 1)
                           \o SelectSeq(withPriority, LAMBDA r : r.priority = 2)
                single == SelectSeq(knowledge,
                              LAMBDA r : \/ LikeContent(r, q) \/ LikeTags(r, q)
                                         \/ LikeUrl(r, q) \/ LikeMetadata(r, q))
            IN last' = Step("P7GetSearch", NoUrl,
                            Reply(200, [results |-> IF Len(queryWords) > 1
                                                    THEN Take(ordered, P7MultiLimit)
                                                    ELSE Take(single, P7SingleLimit)]))
                           @@ [q |-> q]
    /\ UNCHANGED <<knowledge, crawls, crawlAll, recrawlAll, bulkCrawl, browsers>>

\* the `ecosystems` object of /semantic-search
ecosystems ==
    << <<"bitcoin", {"btc", "satoshi", "blockchain", "wallet", "mining", "node"}>>,
       <<"lightning", {"lightning", "channel", "payment", "invoice", "lnurl", "lnbits"}>>,
       <<"nostr", {"nostr", "relay", "npub", "nsec", "note", "event", "client"}>>,
       <<"cashu", {"cashu", "ecash", "mint", "proof", "blinded", "token"}>> >>

RECURSIVE SumOver(_, _)
\* the sum of f over the indices in S
SumOver(f, S) ==
    IF S = {} THEN 0
    ELSE LET x == CHOOSE x \in S : TRUE IN f[x] + SumOver(f, S \ {x})

\* Object.entries(ecosystems).forEach: 20 for every ecosystem that has a
\* query word among its keywords and is in the content or among the tags
EcosystemBonus(entry, queryWords) ==
    SumOver([e \in 1..Len(ecosystems) |->
                IF /\ \E i \in 1..Len(queryWords) : queryWords[i] \in ecosystems[e][2]
                   /\ \/ Includes(entry.content.words, <<ecosystems[e][1]>>)
                      \/ ecosystems[e][1] \in SeqToSet(entry.tags.json)
                THEN 20 ELSE 0],
            1..Len(ecosystems))

\* the score /semantic-search gives an entry for the query
SemanticScore(entry, q) ==
    LET queryWords == QueryWords(q)
    IN SumOver([i \in 1..Len(queryWords) |->
                   (IF Includes(entry.content.words, <<queryWords[i]>>) THEN 10 ELSE 0)
                   + (IF \E t \in 1..Len(entry.tags.json) :
                            Sub(queryWords[i], entry.tags.json[t])
                      THEN 15 ELSE 0)],
               1..Len(queryWords))
       + EcosystemBonus(entry, queryWords)
       + (IF LikeUrl(entry, q) THEN 5 ELSE 0)

RECURSIVE InsertByScore(_, _)
\* r goes after every entry whose score is at least its own
InsertByScore(r, sorted) ==
    IF sorted = <<>> THEN <<r>>
    ELSE IF Head(sorted).score >= r.score
         THEN <<Head(sorted)>> \o InsertByScore(r, Tail(sorted))
         ELSE <<r>> \o sorted

RECURSIVE SortByScore(_)
\* .sort((a, b) => b.score - a.score): descending, ties keeping their order
SortByScore(rows) ==
    IF rows = <<>> THEN <<>>
    ELSE InsertByScore(rows[Len(rows)], SortByScore(SubSeq(rows, 1, Len(rows) - 1)))

\* SELECT ... WHERE status = "crawled" AND content IS NOT NULL AND
\* content != "" ORDER BY updatedAt DESC
SemanticSelect(tbl) ==
    SelectSeq(tbl, LAMBDA r : r.status = "crawled" /\ r.content # NULL /\ r.content.len > 0)

SemanticLimit == 10

\* GET /semantic-search?q=
GetSemanticSearch(q) ==
    /\ Accept
    /\ IF q = <<>>
       THEN last' = Step("GetSemanticSearch", NoUrl,
                         Reply(400, [error |-> "Query parameter is required"])) @@ [q |-> q]
       ELSE LET rows == SemanticSelect(knowledge)
                scoredResults ==
                    [i \in 1..Len(rows) |->
                        [url |-> rows[i].url, content |-> rows[i].content,
                         tags |-> rows[i].tags, status |-> rows[i].status,
                         score |-> SemanticScore(rows[i], q)]]
                topResults ==
                    Take(SortByScore(SelectSeq(scoredResults, LAMBDA r : r.score > 0)),
                         SemanticLimit)
            IN last' = Step("GetSemanticSearch", NoUrl,
                            Reply(200, [success |-> TRUE, results |-> topResults,
                                        query |-> q])) @@ [q |-> q]
    /\ UNCHANGED <<knowledge, crawls, crawlAll, recrawlAll, bulkCrawl, browsers>>

SearchInit ==
    /\ knowledge \in SearchTables
    /\ crawls = [slot \in Slots |-> Idle]
    /\ crawlAll = Idle
    /\ recrawlAll = Idle
    /\ bulkCrawl = Idle
    /\ nreq = 0
    /\ browsers = 0
    /\ last = Step("start", NoUrl, NoResp)

SearchNext ==
    \/ \E q \in Queries : GetSearch(q)
    \/ \E q \in Queries : P7GetSearch(q)
    \/ \E q \in Queries : GetSemanticSearch(q)

SearchSpec == SearchInit /\ [][SearchNext]_vars

(***************************************************************************)
(* The calls of extractTags: the handlers that compute tags, with the log  *)
(* of their calls (arguments, value, and the table at the time of the      *)
(* call) kept in `last`.                                                   *)
(***************************************************************************)
MaxCalls == 3

TagUrls == {WalletsUrl, GuideUrl}

\* the `content` of the /add requests
TagContents == {ShortText, MintText}

\* the pages of /crawl of unnamed/part_007: reached or not, with or
\* without visible text
TagPages ==
    { pg \in Pages : pg.body /\ pg.evaluate /\ pg.title = EmptyText /\ pg.meta = EmptyText }

TagInit ==
    /\ crawls = [slot \in Slots |-> Idle]
    /\ crawlAll = Idle
    /\ recrawlAll = Idle
    /\ bulkCrawl = Idle
    /\ nreq = 0
    /\ browsers = 0
    /\ knowledge \in {<<>>, <<Row(WalletsUrl, "pending", NULL, NULL, NULL, NULL)>>}
    /\ last = [op |-> "start", url |-> NoUrl, resp |-> NoResp, calls |-> <<>>]

\* one more call in the log
Called(fn, content, url, metadata, tags) ==
    Append(last.calls, [fn |-> fn, content |-> content, url |-> url,
                        metadata |-> metadata, tags |-> tags, store |-> knowledge])

\* POST /add {url, content} of backend/routes/knowledge.js
TagPostAdd(url, content) ==
    /\ nreq < MaxCalls
    /\ nreq' = nreq + 1
    /\ LET extractedTags == extractTags(content, url)
       IN /\ knowledge' = InsertOrReplace(knowledge,
                 Row(url, "crawled", Json(extractedTags), content, NULL, NULL))
          /\ last' = [op |-> "PostAdd", url |-> url,
                      resp |-> Reply(200, [success |-> TRUE]),
                      calls |-> Called("extractTags", content, url, NULL, extractedTags)]
    /\ UNCHANGED <<crawls, crawlAll, recrawlAll, bulkCrawl, browsers>>

\* POST /crawl {url} of unnamed/part_007 on the page
TagP7PostCrawl(url, page) ==
    /\ nreq < MaxCalls
    /\ nreq' = nreq + 1
    /\ P7UrlCheck(url) = "ok"
    /\ LET tbl == InsertOrReplace(knowledge, Row(url, "crawling", NULL, NULL, NULL, NULL))
           outcome == P7CrawlPage(page)
       IN IF outcome.success
          THEN LET cleanedContent == outcome.page.visibleText
                   metadata == P7Metadata(outcome.page)
                   tags == P7extractTags(cleanedContent, url, metadata)
               IN /\ knowledge' = UpdateWhereUrl(tbl, url,
                         [status |-> "crawled", tags |-> Json(tags),
                          content |-> Slice(cleanedContent, P7ContentCap),
                          metadata |-> [json |-> metadata], errorMsg |-> NULL])
                  /\ last' = [op |-> "P7PostCrawl", url |-> url,
                              resp |-> Reply(200, [success |-> TRUE, tags |-> tags,
                                                   preview |-> Slice(cleanedContent,
                                                                     P7ContentCap)]),
                              calls |-> Called("P7extractTags", cleanedContent, url,
                                               metadata, tags)]
          ELSE /\ knowledge' = UpdateWhereUrl(tbl, url,
                      [status |-> "error", errorMsg |-> [message |-> outcome.error]])
               /\ last' = [op |-> "P7PostCrawl", url |-> url,
                           resp |-> Reply(500, [error |-> outcome.error]),
                           calls |-> last.calls]
    /\ UNCHANGED <<crawls, crawlAll, recrawlAll, bulkCrawl, browsers>>

\* DELETE /clear
TagDeleteClear ==
    /\ nreq < MaxCalls
    /\ nreq' = nreq + 1
    /\ knowledge' = DeleteAll(knowledge)
    /\ last' = [op |-> "DeleteClear", url |-> NoUrl,
                resp |-> Reply(200, [success |-> TRUE, deleted |-> Len(knowledge)]),
                calls |-> last.calls]
    /\ UNCHANGED <<crawls, crawlAll, recrawlAll, bulkCrawl, browsers>>

TagNext ==
    \/ \E url \in TagUrls, content \in TagContents : TagPostAdd(url, content)
    \/ \E url \in TagUrls, page \in TagPages : TagP7PostCrawl(url, page)
    \/ TagDeleteClear

TagSpec == TagInit /\ [][TagNext]_vars

(***************************************************************************)
(* Properties.  A step is told from `last`: every handler step records its *)
(* name there, so in a step that changes the state last'.op names the      *)
(* handler step taken.                                                     *)
(***************************************************************************)
\* the rows of tbl whose status is protected
Protected(tbl) == { tbl[i] : i \in { j \in 1..Len(tbl) : tbl[j].status = "protected" } }

\* tbl holds an entry for the url of r with the status, content and tags of r
SameEntry(r, tbl) ==
    /\ HasRow(tbl, r.url)
    /\ RowOf(tbl, r.url).status = r.status
    /\ RowOf(tbl, r.url).content = r.content
    /\ RowOf(tbl, r.url).tags = r.tags

\* ... and with the errorMsg of r
SameEntryAndError(r, tbl) ==
    SameEntry(r, tbl) /\ RowOf(tbl, r.url).errorMsg = r.errorMsg

\* the handler steps of /crawl, /crawl-single, /crawl-all and /recrawl-all of
\* backend/routes/knowledge.js
CrawlSteps ==
    { "PostCrawl", "PostCrawlReturn", "PostCrawlSingle", "PostCrawlSingleReturn",
      "PostCrawlAll", "CrawlAllReturn", "CrawlAllDelay",
      "PostRecrawlAll", "RecrawlAllReturn", "RecrawlAllDelay" }

\* C1: DELETE /clear neither removes nor changes a protected entry: after the
\* step the entry exists with the same status, content and tags.
C1_ClearKeepsProtected ==
    [][last'.op = "DeleteClear" =>
           \A r \in Protected(knowledge) : SameEntry(r, knowledge')]_vars

\* C2: a /recrawl-all batch selects no protected entry, and the write that
\* follows a fetch of the batch leaves every protected entry with the same
\* status, content, tags and errorMsg.
C2_RecrawlAllSkipsProtected ==
    [][/\ (last'.op = "PostRecrawlAll" /\ recrawlAll' # Idle =>
              \A i \in 1..Len(recrawlAll'.rows) : recrawlAll'.rows[i].status # "protected")
       /\ (last'.op = "RecrawlAllReturn" =>
              \A r \in Protected(knowledge) : SameEntryAndError(r, knowledge'))]_vars

\* C3: protected is terminal: no step of /crawl, /crawl-single, /crawl-all or
\* /recrawl-all and no POST /add changes the status, content or tags of an
\* entry whose status is protected.
C3_ProtectedIsTerminal ==
    [][last'.op \in CrawlSteps \cup {"PostAdd"} =>
           \A r \in Protected(knowledge) : SameEntry(r, knowledge')]_vars

\* the urls of the entries of tbl that are pending or failed
PendingOrFailed(tbl) ==
    { u \in SeqToSet([i \in 1..Len(tbl) |-> tbl[i].url]) :
          RowOf(tbl, u).status = "pending" \/ RowOf(tbl, u).status = "failed" }

\* C4: the rows a /crawl-all batch selects are exactly the entries that are
\* pending or failed at that moment, and the batch keeps them to its end; each
\* fetch of the batch is of a selected url and its write leaves every other
\* entry (so every entry crawled or protected at selection) with the same
\* status, content, tags and errorMsg; the other steps of the batch write
\* nothing; and summary.total is the number of entries selected.
C4_CrawlAllOnlyPendingOrFailed ==
    [][/\ (last'.op = "PostCrawlAll" =>
              /\ knowledge' = knowledge
              /\ IF crawlAll' = Idle
                 THEN PendingOrFailed(knowledge) = {}
                 ELSE /\ SeqToSet(crawlAll'.rows) = PendingOrFailed(knowledge)
                      /\ Len(crawlAll'.rows) = Cardinality(PendingOrFailed(knowledge)))
       /\ (last'.op = "CrawlAllReturn" =>
              /\ last'.url \in SeqToSet(crawlAll.rows)
              /\ crawlAll'.rows = crawlAll.rows
              /\ \A i \in 1..Len(knowledge) :
                     knowledge[i].url # last'.url =>
                         SameEntryAndError(knowledge[i], knowledge'))
       /\ (last'.op = "CrawlAllDelay" =>
              /\ knowledge' = knowledge
              /\ (crawlAll' # Idle => crawlAll'.rows = crawlAll.rows)
              /\ (last'.resp.sent =>
                     last'.resp.body.summary.total = Len(crawlAll.rows)))]_vars

\* a /crawl-all batch of one entry has answered, and the protected wallet
\* entry stored beside it is there as it was
C4_Witness ==
    /\ last.op = "CrawlAllDelay"
    /\ last.resp.sent
    /\ last.resp.body.summary.total = 1
    /\ \E i \in 1..Len(knowledge) :
           knowledge[i].status = "protected" /\ knowledge[i].content = WalletContent

\* the step ends a crawl of last'.url in failure
CrawlFailed ==
    \/ /\ last'.op \in {"PostCrawlReturn", "PostCrawlSingleReturn", "P7PostCrawlReturn"}
       /\ last'.resp.code = 500
    \/ last'.op = "CrawlAllReturn" /\ crawlAll'.errorCount > crawlAll.errorCount
    \/ last'.op = "RecrawlAllReturn" /\ recrawlAll'.errorCount > recrawlAll.errorCount
    \/ /\ last'.op = "P7BulkCrawlReturn"
       /\ IF bulkCrawl' = Idle
          THEN last'.resp.body.failed > Len(bulkCrawl.errors)
          ELSE Len(bulkCrawl'.errors) > Len(bulkCrawl.errors)

\* the step ends a crawl of last'.url in success
CrawlSucceeded ==
    \/ /\ last'.op \in {"PostCrawlReturn", "PostCrawlSingleReturn", "P7PostCrawlReturn"}
       /\ last'.resp.code = 200
    \/ last'.op = "CrawlAllReturn" /\ crawlAll'.successCount > crawlAll.successCount
    \/ last'.op = "RecrawlAllReturn" /\ recrawlAll'.successCount > recrawlAll.successCount
    \/ /\ last'.op = "P7BulkCrawlReturn"
       /\ IF bulkCrawl' = Idle
          THEN last'.resp.body.successful > Len(bulkCrawl.results)
          ELSE Len(bulkCrawl'.results) > Len(bulkCrawl.results)

\* C5: a failing crawl of a url that has an entry leaves the entry with
\* status failed, errorMsg set, and the content and tags it had.
C5_FailureKeepsContent ==
    [][CrawlFailed /\ HasRow(knowledge, last'.url) =>
           /\ HasRow(knowledge', last'.url)
           /\ RowOf(knowledge', last'.url).status = "failed"
           /\ RowOf(knowledge', last'.url).errorMsg # NULL
           /\ RowOf(knowledge', last'.url).content = RowOf(knowledge, last'.url).content
           /\ RowOf(knowledge', last'.url).tags = RowOf(knowledge, last'.url).tags]_vars

\* C6: a successful crawl of a url that has an entry leaves the entry with
\* status crawled, errorMsg NULL, and content and tags set from the crawl.
C6_SuccessSetsCrawled ==
    [][CrawlSucceeded /\ HasRow(knowledge, last'.url) =>
           /\ HasRow(knowledge', last'.url)
           /\ RowOf(knowledge', last'.url).status = "crawled"
           /\ RowOf(knowledge', last'.url).errorMsg = NULL
           /\ RowOf(knowledge', last'.url).content # NULL
           /\ RowOf(knowledge', last'.url).tags # NULL]_vars

StatusEdges ==
    { <<"pending", "crawling">>, <<"crawled", "crawling">>, <<"failed", "crawling">>,
      <<"crawling", "crawled">>, <<"crawling", "failed">> }

\* C7: a step of /crawl, /crawl-single, /crawl-all or /recrawl-all changes the
\* status of an entry only along pending -> crawling, crawled -> crawling,
\* failed -> crawling, crawling -> crawled and crawling -> failed.
C7_StatusEdges ==
    [][last'.op \in CrawlSteps =>
           \A i \in 1..Len(knowledge) :
               LET r == knowledge[i]
               IN HasRow(knowledge', r.url) /\ RowOf(knowledge', r.url).status # r.status
                      => <<r.status, RowOf(knowledge', r.url).status>> \in StatusEdges]_vars

Statuses == {"pending", "crawling", "crawled", "failed", "protected"}

\* C8: the status of every stored entry is one of pending, crawling, crawled,
\* failed, protected.
C8_StatusEnum ==
    \A i \in 1..Len(knowledge) : knowledge[i].status \in Statuses

\* C9: for every stored entry, errorMsg is present if and only if the status
\* is failed.
C9_ErrorMsgIffFailed ==
    \A i \in 1..Len(knowledge) :
        (knowledge[i].errorMsg # NULL) <=> (knowledge[i].status = "failed")

NoDuplicateUrls ==
    \A i, j \in 1..Len(knowledge) : i # j => knowledge[i].url # knowledge[j].url

\* C10: no two stored entries have the same url, and POST /add {url} without
\* content for a url that has an entry leaves the table as it is, whatever
\* the status of the entry.
C10_ReAddIdempotent ==
    /\ []NoDuplicateUrls
    /\ [][\A url \in URLs, tags \in ReqTags :
              PostAdd(url, Absent, tags) /\ HasRow(knowledge, url)
                  => knowledge' = knowledge]_vars

\* POST /add {url} was answered for the url of the protected wallet entry, and
\* the entry is still the one /add-wallet-info wrote
C10_Witness ==
    /\ last.op = "PostAdd"
    /\ last.resp.code = 200
    /\ HasRow(knowledge, last.url)
    /\ RowOf(knowledge, last.url).status = "protected"
    /\ RowOf(knowledge, last.url).content = WalletContent

\* the rows of tbl stored for url
RowsFor(tbl, url) == SelectSeq(tbl, LAMBDA r : r.url = url)

\* C11: POST /add {url} without content, for a url that has no entry, leaves
\* exactly one entry for the url, with status pending, and touches no other
\* entry; GET /all answers with every row of the table as it stands and
\* changes none, so the GET /all that follows lists exactly that one pending
\* row for the url.
C11_AddThenListPending ==
    [][ /\ \A url \in URLs, tags \in ReqTags :
               PostAdd(url, Absent, tags) /\ ~HasRow(knowledge, url)
                   => /\ Len(RowsFor(knowledge', url)) = 1
                      /\ RowsFor(knowledge', url)[1].status = "pending"
                      /\ DeleteWhereUrl(knowledge', url) = knowledge
        /\ last'.op = "GetAll"
               => /\ last'.resp = Reply(200, [knowledge |-> knowledge])
                  /\ knowledge' = knowledge
                  /\ \A url \in URLs :
                         last.op = "PostAdd" /\ last.url = url
                         /\ RowsFor(knowledge, url) # <<>>
                         /\ RowsFor(knowledge, url)[1].status = "pending"
                             => /\ Len(RowsFor(last'.resp.body.knowledge, url)) = 1
                                /\ RowsFor(last'.resp.body.knowledge, url)[1].status
                                       = "pending" ]_vars

\* GET /all has answered right after POST /add {url} created the pending
\* entry of a url that had none
C11_Witness ==
    /\ last.op = "GetAll"
    /\ nreq = 2
    /\ Len(RowsFor(last.resp.body.knowledge, InternalUrl)) = 1
    /\ RowsFor(last.resp.body.knowledge, InternalUrl)[1].status = "pending"
    /\ Len(knowledge) = 1

\* C12: every entry with status crawled holds content of at most 300
\* characters.
C12_CrawledContentCapped ==
    \A i \in 1..Len(knowledge) :
        knowledge[i].status = "crawled" /\ knowledge[i].content # NULL
            => knowledge[i].content.len <= ContentCap

\* C13: every entry with status crawled holds at most 15 tags.
C13_CrawledTagsCapped ==
    \A i \in 1..Len(knowledge) :
        knowledge[i].status = "crawled" /\ knowledge[i].tags # NULL
            => Len(knowledge[i].tags.json) <= MaxTags

\* the url of a row the batch selected: /crawl-all selects urls, /recrawl-all
\* whole rows
BatchUrl(b, i) == IF b.ep = "PostCrawlAll" THEN b.rows[i] ELSE b.rows[i].url

\* the summary the batch b sends in the response resp is complete
CompleteSummary(b, resp) ==
    /\ resp.code = 200
    /\ Len(resp.body.results) = Len(b.rows)
    /\ \A i \in 1..Len(b.rows) :
          /\ resp.body.results[i].url = BatchUrl(b, i)
          /\ resp.body.results[i].status \in {"success", "error"}
    /\ resp.body.summary.total = Len(b.rows)
    /\ resp.body.summary.total = resp.body.summary.success + resp.body.summary.errors
    /\ resp.body.summary.errors =
          Cardinality({ i \in 1..Len(b.rows) : resp.body.results[i].status = "error" })

\* C14: a batch never aborts on a failed url.  While it runs it has one
\* result per url attempted, in the order selected; when /crawl-all or
\* /recrawl-all answers, the results hold exactly one record per selected url
\* and total = n = success + errors, whichever urls failed.
C14_BatchNeverAborts ==
    /\ [](\A b \in {crawlAll, recrawlAll} :
             b # Idle => /\ b.i \in 1..Len(b.rows)
                         /\ Len(b.results) = IF b.phase = "crawl" THEN b.i - 1 ELSE b.i
                         /\ b.successCount + b.errorCount = Len(b.results))
    /\ [][ /\ last'.op = "CrawlAllDelay" /\ last'.resp.sent
                   => CompleteSummary(crawlAll, last'.resp)
           /\ last'.op = "RecrawlAllDelay" /\ last'.resp.sent
                   => CompleteSummary(recrawlAll, last'.resp) ]_vars

\* a batch of two urls answered after the first of them failed
C14_Witness ==
    /\ last.op \in {"CrawlAllDelay", "RecrawlAllDelay"}
    /\ last.resp.sent
    /\ last.resp.body.summary.total = 2
    /\ last.resp.body.results[1].status = "error"
    /\ last.resp.body.summary.errors >= 1

\* C15: within one batch no two fetches are in flight.  The batch holds one
\* open browser while it awaits crawlUrl and none during the delay, and the
\* crawl of the next url starts from a batch that holds none.
C15_BatchSerialized ==
    /\ [](\A b \in {crawlAll, recrawlAll} :
             b # Idle => b.open = IF b.phase = "crawl" THEN 1 ELSE 0)
    /\ [][ /\ last'.op = "CrawlAllDelay" /\ ~last'.resp.sent
                   => crawlAll.open = 0 /\ crawlAll'.open = 1
                      /\ Len(crawlAll.results) = crawlAll.i
           /\ last'.op = "RecrawlAllDelay" /\ ~last'.resp.sent
                   => recrawlAll.open = 0 /\ recrawlAll'.open = 1
                      /\ Len(recrawlAll.results) = recrawlAll.i ]_vars

\* a batch awaits the crawl of its second url, the first having returned
C15_Witness ==
    \E b \in {crawlAll, recrawlAll} :
        /\ b # Idle
        /\ b.i = 2
        /\ b.phase = "crawl"
        /\ Len(b.results) = 1
        /\ b.open = 1

\* the browsers the requests of backend/routes/knowledge.js hold open: one
\* per /crawl or /crawl-single awaiting crawlUrl, and those of the batches
OpenBrowsers ==
    Cardinality({ slot \in Slots : /\ crawls[slot] # Idle
                                   /\ crawls[slot].ep \in {"PostCrawl", "PostCrawlSingle"} })
    + (IF crawlAll = Idle THEN 0 ELSE crawlAll.open)
    + (IF recrawlAll = Idle THEN 0 ELSE recrawlAll.open)

\* C16: at any moment at most one browser instance is open among the
\* requests of /crawl, /crawl-single, /crawl-all and /recrawl-all.
C16_OneBrowserAtATime == OpenBrowsers <= 1

\* the crawls that have started and not ended
CrawlsInFlight ==
    Cardinality({ slot \in Slots : crawls[slot] # Idle })
    + (IF crawlAll = Idle THEN 0 ELSE crawlAll.open)
    + (IF recrawlAll = Idle THEN 0 ELSE recrawlAll.open)
    + (IF bulkCrawl # Idle /\ bulkCrawl.phase = "crawl" THEN 1 ELSE 0)

\* C17: no finished crawl leaves a browser open: the browsers open are those
\* of the crawls still in flight.
C17_NoBrowserLeftOpen == browsers = CrawlsInFlight

\* the eight kinds of the error taxonomy
ErrorTypes ==
    { "TIMEOUT", "CONNECTION_REFUSED", "DNS_ERROR", "CONNECTION_TIMEOUT", "SSL_ERROR",
      "BLOCKED", "INVALID_URL", "UNKNOWN" }

Holds(message, piece) == Includes(toLowerCase(message), <<piece>>)

\* C19: every message that contains ERR_NAME_NOT_RESOLVED is classified
\* DNS_ERROR and is retryable, and every message that contains
\* ERR_BLOCKED_BY_CLIENT is classified BLOCKED and is not retryable.
C19_DnsAndBlocked ==
    last.op = "crawlUrlCatch" =>
        /\ Holds(last.resp.message, "net::err_name_not_resolved")
              => /\ last.resp.returned.errorType = "DNS_ERROR"
                 /\ last.resp.returned.retryable
        /\ Holds(last.resp.message, "net::err_blocked_by_client")
              => /\ last.resp.returned.errorType = "BLOCKED"
                 /\ ~last.resp.returned.retryable

\* the kind each engine error code stands for
CodeKinds ==
    { <<"net::err_connection_refused", "CONNECTION_REFUSED">>,
      <<"net::err_name_not_resolved", "DNS_ERROR">>,
      <<"net::err_connection_timed_out", "CONNECTION_TIMEOUT">>,
      <<"net::err_ssl_protocol_error", "SSL_ERROR">>,
      <<"net::err_blocked_by_client", "BLOCKED">>,
      <<"net::err_invalid_url", "INVALID_URL">> }

\* C20: a message that contains one engine error code is classified by that
\* code, whatever generic keyword of another kind it also contains, and every
\* message is given one of the eight kinds.
C20_MostSpecificFirst ==
    last.op = "crawlUrlCatch" =>
        /\ last.resp.returned.errorType \in ErrorTypes
        /\ \A ck \in CodeKinds :
              /\ Holds(last.resp.message, ck[1])
              /\ \A other \in CodeKinds \ {ck} : ~Holds(last.resp.message, other[1])
              => last.resp.returned.errorType = ck[2]

\* the entry failed with an error that is not retryable
FailedForGood(r) ==
    /\ r.status = "failed"
    /\ r.errorMsg # NULL
    /\ ~isRetryableError(classifyError(r.errorMsg.message))

\* C21: /crawl-all retries only transient failures: an entry whose last
\* crawl failed with a type that is not retryable is not among the rows the
\* run selects, and an entry that failed with a retryable type is.
C21_RetryOnlyTransient ==
    [][ last'.op = "PostCrawlAll" /\ crawlAll' # Idle
            => \A i \in 1..Len(knowledge) :
                  knowledge[i].status = "failed" /\ knowledge[i].errorMsg # NULL
                      => (knowledge[i].url \in SeqToSet(crawlAll'.rows)
                             <=> ~FailedForGood(knowledge[i])) ]_vars

\* the crawls of one page by the handlers of backend/routes/knowledge.js ...
PageCrawls == {"PostCrawl", "PostCrawlSingle", "PostCrawlAll", "PostRecrawlAll"}

\* ... and by /crawl of unnamed/part_007 as well
AllPageCrawls == PageCrawls \cup {"P7PostCrawl"}

\* C22: whenever the navigation to the page succeeds, the crawl ends with
\* success and the entry with status crawled, whatever happens during
\* extraction (no body, extractor exception, empty text).
C22_OnlyNavigationFails ==
    last.op \in AllPageCrawls /\ last.page.nav
        => /\ RowOf(knowledge, last.url).status = "crawled"
           /\ last.resp.sent => last.resp.code = 200

\* C23: the crawl of a page that has a title and an empty body succeeds, and
\* the content stored is made of the title and the meta description: it is
\* not empty and every word of it is a word of one of them.
C23_TitleFallback ==
    /\ last.op \in PageCrawls
    /\ last.page.nav
    /\ last.page.title # EmptyText
    /\ last.page.text = EmptyText
    => /\ RowOf(knowledge, last.url).status = "crawled"
       /\ RowOf(knowledge, last.url).content # NULL
       /\ RowOf(knowledge, last.url).content.len > 0
       /\ SeqToSet(RowOf(knowledge, last.url).content.words)
             \subseteq SeqToSet(MetaAndTitle(last.page).words)

\* C26: for the same url and the same page, the status, content and tags
\* every trigger writes are those POST /crawl writes.
C26_TriggerIndependent ==
    last.op \in AllPageCrawls /\ last.page.nav
        => SameEntry(
               RowOf(PostCrawlWrite(<<Row(last.url, "pending", NULL, NULL, NULL, NULL)>>,
                                    last.url, crawlUrlPage(last.url, last.page)),
                     last.url),
               knowledge)

\* the entry matches every significant word of the query in its content,
\* tags, url or metadata
MatchesAll(row, q) == \A i \in 1..Len(QueryWords(q)) : P7Matches(row, QueryWords(q)[i])

\* C27: for a keyword search with two or more significant words, every
\* returned entry that matches all the words comes before every returned
\* entry that matches only some, and an entry that matches all of them is
\* returned (the table being within the limit).
C27_AllBeforeAny ==
    /\ last.op \in {"GetSearch", "P7GetSearch"}
    /\ last.resp.code = 200
    /\ Len(QueryWords(last.q)) >= 2
    => LET results == last.resp.body.results
       IN /\ \A i, j \in 1..Len(results) :
                i < j => ~(MatchesAll(results[j], last.q) /\ ~MatchesAll(results[i], last.q))
          /\ Len(knowledge) <= KeywordLimit
                => \A k \in 1..Len(knowledge) :
                       MatchesAll(knowledge[k], last.q)
                           => \E i \in 1..Len(results) : results[i].url = knowledge[k].url

\* C28: semantic search returns only crawled entries with a score above 0,
\* in non-increasing order of score, at most 10, and no crawled entry left
\* out has a higher score than one returned.
C28_SemanticTopTen ==
    last.op = "GetSemanticSearch" /\ last.resp.code = 200
    => LET results == last.resp.body.results
       IN /\ Len(results) <= 10
          /\ \A i \in 1..Len(results) :
                /\ results[i].status = "crawled"
                /\ results[i].score > 0
                /\ \E k \in 1..Len(knowledge) : knowledge[k].url = results[i].url
          /\ \A i, j \in 1..Len(results) : i < j => results[i].score >= results[j].score
          /\ \A k \in 1..Len(knowledge) :
                /\ knowledge[k].status = "crawled"
                /\ knowledge[k].content # NULL
                /\ \A i \in 1..Len(results) : results[i].url # knowledge[k].url
                => \A i \in 1..Len(results) :
                       SemanticScore(knowledge[k], last.q) <= results[i].score

\* the query maps, through the table extractTags uses, to an ecosystem that
\* is in the content or among the tags of the entry
MapsToEcosystemPresent(entry, queryWords) ==
    \E m \in 1..Len(searchWordMappings) :
        /\ \E i \in 1..Len(queryWords) : queryWords[i] = searchWordMappings[m][1]
        /\ \/ Includes(entry.content.words, <<searchWordMappings[m][2]>>)
           \/ searchWordMappings[m][2] \in SeqToSet(entry.tags.json)

\* C29: the score of an entry is 10 for every query word found in its
\* content, 15 for every query word found in its tags, 20 if the query maps
\* through the ecosystem table of tag extraction to an ecosystem present in
\* the entry, and 5 if the url contains the query.
C29_ScoreFormula ==
    last.op = "GetSemanticSearch" /\ last.resp.code = 200
    => \A r \in 1..Len(last.resp.body.results) :
          LET entry == last.resp.body.results[r]
              queryWords == QueryWords(last.q)
          IN entry.score =
                10 * Cardinality({ i \in 1..Len(queryWords) :
                                     Includes(entry.content.words, <<queryWords[i]>>) })
                + 15 * Cardinality({ i \in 1..Len(queryWords) :
                                       \E t \in 1..Len(entry.tags.json) :
                                           Sub(queryWords[i], entry.tags.json[t]) })
                + (IF MapsToEcosystemPresent(entry, queryWords) THEN 20 ELSE 0)
                + (IF LikeUrl(entry, last.q) THEN 5 ELSE 0)


\* C24: a crawl request for a url that is not http/https or whose host is
\* private or internal is rejected before any fetch and before any write to
\* the store: the step of the request leaves the table, the crawls in flight
\* and the browsers as they were.
C24_UrlGuard ==
    [][ /\ last'.op \in {"PostCrawl", "PostCrawlSingle", "P7PostCrawl"}
        /\ last'.url # NoUrl
        /\ P7UrlCheck(last'.url) # "ok"
        => /\ knowledge' = knowledge
           /\ crawls' = crawls
           /\ browsers' = browsers ]_vars


\* C25: in recrawl-all, a url recrawled with success is added to the
\* improvements list exactly when the new tag count exceeds the old one or
\* the new content length exceeds the old one, and its record and its result
\* have tagImprovement true exactly when the new tag count exceeds the old.
C25_ImprovementIff ==
    [][ last'.op = "RecrawlAllReturn" /\ recrawlAll'.successCount > recrawlAll.successCount
        => LET row == recrawlAll.rows[recrawlAll.i]
               oldTagCount == IF row.tags = NULL THEN 0 ELSE Len(row.tags.json)
               oldLength == IF row.content = NULL THEN 0 ELSE row.content.len
           IN \E result \in crawlUrl(row.url) :
                 /\ result.success
                 /\ LET newTagCount == Len(extractTags(result.content, row.url))
                        more == newTagCount > oldTagCount
                        longer == result.content.len > oldLength
                        outcome == recrawlAll'.results[Len(recrawlAll'.results)]
                        listed == recrawlAll'.improvements
                    IN /\ outcome.url = row.url
                       /\ outcome.improvements.tagImprovement = more
                       /\ outcome.improvements.contentImprovement = longer
                       /\ IF more \/ longer
                          THEN /\ Len(listed) = Len(recrawlAll.improvements) + 1
                               /\ listed[Len(listed)].url = row.url
                               /\ listed[Len(listed)].tagImprovement = more
                               /\ listed[Len(listed)].newTags = newTagCount
                               /\ listed[Len(listed)].oldTags = oldTagCount
                          ELSE listed = recrawlAll.improvements ]_vars

\* a recrawl listed a url whose tags grew while its content did not
C25_Witness ==
    /\ last.op = "RecrawlAllReturn"
    /\ recrawlAll # Idle
    /\ \E i \in 1..Len(recrawlAll.improvements) :
          /\ recrawlAll.improvements[i].url = last.url
          /\ recrawlAll.improvements[i].tagImprovement
          /\ ~recrawlAll.improvements[i].contentImprovement


NothingToCrawl(tbl) ==
    \A i \in 1..Len(tbl) : tbl[i].status \notin {"pending", "failed"}

\* C31: POST /crawl-all with no pending and no failed entry performs no
\* fetch, leaves the store unchanged and answers success with the message
\* 'No pending or failed entries to crawl'; the response carries no list of
\* results at all.
C31_NothingToCrawl ==
    [][ last'.op = "PostCrawlAll" /\ NothingToCrawl(knowledge)
        => /\ knowledge' = knowledge
           /\ browsers' = browsers
           /\ crawlAll' = Idle
           /\ crawls' = crawls
           /\ last'.resp = Reply(200, [success |-> TRUE,
                                       message |-> "No pending or failed entries to crawl"]) ]_vars

\* /crawl-all answered on a table that holds entries, none of them pending
\* or failed
C31_Witness ==
    /\ last.op = "PostCrawlAll"
    /\ last.resp.sent
    /\ Len(knowledge) > 0
    /\ NothingToCrawl(knowledge)

\* C31 as stated: the answer of the empty case holds a result list, and the
\* list is empty.
C31_EmptyResultList ==
    last.op = "PostCrawlAll" /\ last.resp.sent
    => /\ last.resp.body.success
       /\ "results" \in DOMAIN last.resp.body
       /\ last.resp.body.results = <<>>

\* C32: within a batch the urls are processed in the order the query
\* returned them and the results keep that order: every pass of the loop
\* handles the next selected row and appends its result, so the i-th result
\* is for the i-th selected row; /crawl-all selects the pending and failed
\* urls, each once, and /recrawl-all takes the rows most recently updated
\* first.
C32_StoreQueryOrder ==
    /\ [](\A b \in {crawlAll, recrawlAll} :
             b # Idle => \A k \in 1..Len(b.results) : b.results[k].url = BatchUrl(b, k))
    /\ [][ /\ last'.op = "CrawlAllReturn"
                 => /\ last'.url = BatchUrl(crawlAll, Len(crawlAll.results) + 1)
                    /\ Len(crawlAll'.results) = Len(crawlAll.results) + 1
                    /\ crawlAll'.rows = crawlAll.rows
           /\ last'.op = "RecrawlAllReturn"
                 => /\ last'.url = BatchUrl(recrawlAll, Len(recrawlAll.results) + 1)
                    /\ Len(recrawlAll'.results) = Len(recrawlAll.results) + 1
                    /\ recrawlAll'.rows = recrawlAll.rows
           /\ last'.op = "PostRecrawlAll" /\ recrawlAll' # Idle
                 => /\ Len(recrawlAll'.rows) = Len(knowledge)
                    /\ \A k \in 1..Len(knowledge) :
                          BatchUrl(recrawlAll', k) = knowledge[k].url
           /\ last'.op = "CrawlAllDelay" /\ last'.resp.sent
                 => \A k \in 1..Len(crawlAll.rows) :
                       last'.resp.body.results[k].url = crawlAll.rows[k]
           /\ last'.op = "RecrawlAllDelay" /\ last'.resp.sent
                 => \A k \in 1..Len(recrawlAll.rows) :
                       last'.resp.body.results[k].url = recrawlAll.rows[k].url ]_vars

\* /recrawl-all answered for two entries, the first result being for the
\* entry that was the most recently updated when the batch began
C32_Witness ==
    /\ last.op = "RecrawlAllDelay"
    /\ last.resp.sent
    /\ Len(last.resp.body.results) = 2
    /\ last.resp.body.results[1].url # last.resp.body.results[2].url

\* C33: every started batch finishes.  A /crawl-all or /recrawl-all in its
\* loop leads to the batch over and its summary sent, and a /crawl awaiting its
\* crawl leads to the request answered.
C33_BatchTerminates ==
    /\ (crawlAll # Idle) ~> (crawlAll = Idle /\ last.op = "CrawlAllDelay" /\ last.resp.sent)
    /\ (recrawlAll # Idle)
          ~> (recrawlAll = Idle /\ last.op = "RecrawlAllDelay" /\ last.resp.sent)
    /\ \A slot \in Slots : (crawls[slot] # Idle) ~> (crawls[slot] = Idle)

\* a batch of two urls awaiting the crawl of the second
C33_Witness ==
    /\ crawlAll # Idle
    /\ Len(crawlAll.rows) = 2
    /\ crawlAll.i = 2
    /\ crawlAll.phase = "crawl"

\* the rows of the table for the url
EntriesOf(tbl, url) == { i \in 1..Len(tbl) : tbl[i].url = url }

\* the entry of the url is what a crawl that ended in success, or in the
\* failure `error`, writes: one row, crawled without errorMsg or failed with it
WrittenBy(tbl, url, success) ==
    /\ Cardinality(EntriesOf(tbl, url)) <= 1
    /\ \A i \in EntriesOf(tbl, url) :
          IF success
          THEN tbl[i].status = "crawled" /\ tbl[i].errorMsg = NULL
          ELSE tbl[i].status = "failed" /\ tbl[i].errorMsg # NULL

\* C34: a single-url crawl and a batch crawl of the same url may overlap, and
\* each of their writes is one atomic update of the one row of the url: right
\* after any of them the entry has the status and errorMsg of that write
\* (crawled and no errorMsg, or failed and an errorMsg), whatever the other
\* crawl wrote before, so that the write that comes last decides.
C34_LastWriteWins ==
    [][ /\ last'.op \in {"PostCrawlReturn", "PostCrawlSingleReturn"}
              => WrittenBy(knowledge', last'.url, last'.resp.code = 200)
        /\ last'.op = "CrawlAllReturn"
              => WrittenBy(knowledge', last'.url,
                           crawlAll'.results[Len(crawlAll'.results)].status = "success")
        /\ last'.op = "RecrawlAllReturn"
              => WrittenBy(knowledge', last'.url,
                           recrawlAll'.results[Len(recrawlAll'.results)].status = "success")
      ]_vars

\* a /crawl of a url came back with success after the /crawl-all running at
\* the same time had failed on the same url: the entry is crawled
C34_Witness ==
    /\ last.op = "PostCrawlReturn"
    /\ last.resp.code = 200
    /\ crawlAll # Idle
    /\ \E k \in 1..Len(crawlAll.results) :
          crawlAll.results[k].url = last.url /\ crawlAll.results[k].status = "error"
    /\ HasRow(knowledge, last.url)
    /\ RowOf(knowledge, last.url).status = "crawled"

\* C35: the tag list extractTags returns never holds the same tag twice,
\* also for content that brings the synonym tags (nostr-wallet-connect/nwc,
\* electronic-cash/ecash/cashu).
C35_TagsDistinct ==
    \A c \in 1..Len(last.calls) :
        \A i, j \in 1..Len(last.calls[c].tags) :
            i # j => last.calls[c].tags[i] # last.calls[c].tags[j]

\* the urls of the sources enabled in the registry
EnabledSources == { source.url : source \in { s \in RECRAWL_SOURCES : s.enabled } }

\* C36: POST /recrawl-all, the request RecrawlManager sends, touches only the
\* sources enabled in the registry of recrawl sources: the urls it takes up
\* and fetches are urls of enabled sources, and an entry of a url that is not
\* an enabled source is neither fetched nor modified by it.
C36_OnlyEnabledSources ==
    [][ last'.op \in {"PostRecrawlAll", "RecrawlAllReturn"}
        => /\ recrawlAll' # Idle
                 => \A k \in 1..Len(recrawlAll'.rows) :
                       BatchUrl(recrawlAll', k) \in EnabledSources
           /\ \A i \in 1..Len(knowledge) :
                 knowledge[i].url \notin EnabledSources
                     => \E j \in 1..Len(knowledge') : knowledge'[j] = knowledge[i] ]_vars

\* C37: whenever POST /crawl or /crawl-single answers success for a url, an
\* entry of that url with status crawled is in the store at that moment, also
\* when a /remove of the url or a /clear ran while the crawl was in flight.
C37_SuccessMeansStored ==
    last.op \in {"PostCrawlReturn", "PostCrawlSingleReturn"} /\ last.resp.code = 200
    => \E i \in 1..Len(knowledge) :
          knowledge[i].url = last.url /\ knowledge[i].status = "crawled"

\* C38: recrawl is stable.  When a pass of /recrawl-all obtains for a url the
\* page content the entry was written from (it stores the content and the
\* tags the crawled entry already had), it reports no improvement for the
\* url: tagImprovement and contentImprovement are both false, whatever the
\* length of the content derived from the page.
C38_RecrawlStable ==
    [][ /\ last'.op = "RecrawlAllReturn"
        /\ recrawlAll'.successCount > recrawlAll.successCount
        /\ HasRow(knowledge', last'.url)
        => LET old == recrawlAll.rows[recrawlAll.i]
               new == RowOf(knowledge', last'.url)
               outcome == recrawlAll'.results[Len(recrawlAll'.results)]
           IN old.status = "crawled" /\ old.content = new.content /\ old.tags = new.tags
                 => /\ ~outcome.improvements.tagImprovement
                    /\ ~outcome.improvements.contentImprovement
                    /\ recrawlAll'.improvements = recrawlAll.improvements ]_vars

RECURSIVE SumOfCounts(_, _)
\* the sum of counts[k] over the keys k of keys
SumOfCounts(counts, keys) ==
    IF keys = {} THEN 0
    ELSE LET k == CHOOSE x \in keys : TRUE
         IN counts[k] + SumOfCounts(counts, keys \ {k})

\* the answer of a finished batch run
IsBatchSummary(step) ==
    /\ step.op \in {"CrawlAllDelay", "RecrawlAllDelay"}
    /\ step.resp # NoResp
    /\ "summary" \in DOMAIN step.resp.body

\* C39: in every batch summary the keys of errorBreakdown are error types of
\* the taxonomy and its counts sum to summary.errors, whichever failure path
\* counted each url.
C39_BreakdownSumsToErrors ==
    IsBatchSummary(last)
        => LET summary == last.resp.body.summary
           IN /\ DOMAIN summary.errorBreakdown \subseteq ErrorTypes
              /\ SumOfCounts(summary.errorBreakdown, DOMAIN summary.errorBreakdown)
                    = summary.errors

\* getAllKnowledge(): the rows of GET /all as the links of the admin page
getAllKnowledge(tbl) ==
    [i \in 1..Len(GetAllSelect(tbl)) |->
        LET row == GetAllSelect(tbl)[i]
        IN [url |-> row.url, status |-> row.status,
            tags |-> IF row.tags = NULL THEN <<>> ELSE row.tags.json,
            errorMsg |-> row.errorMsg, content |-> row.content]]

\* handleCrawlAll: links.filter(l => l.status === 'pending' || l.status === 'error')
toCrawl(links) == SelectSeq(links, LAMBDA l : l.status = "pending" \/ l.status = "error")

\* the urls 'Crawl New & Failed' posts to /crawl when the page shows the table
handleCrawlAllUrls(tbl) ==
    { toCrawl(getAllKnowledge(tbl))[i].url : i \in 1..Len(toCrawl(getAllKnowledge(tbl))) }

\* C40: the admin page's 'Crawl New & Failed' selects the entries crawl-all
\* selects: every entry left with status failed by a crawl and every pending
\* entry is among the urls it crawls.
C40_UiSelectsLikeCrawlAll ==
    /\ handleCrawlAllUrls(knowledge) = CrawlAllSelect(knowledge)
    /\ \A i \in 1..Len(knowledge) :
          knowledge[i].status \in {"pending", "failed"}
              => knowledge[i].url \in handleCrawlAllUrls(knowledge)

====
